---------------------------- MODULE Spec2Model ----------------------------
(***************************************************************************)
(* A model of the datapulse analytics core: the session's data store and   *)
(* column mappings, the import paths that fill them, and the metric        *)
(* computations of utils/analytics.py (AnalyticsEngine) and                *)
(* views/ai_chat.py (DataAnalyzer).                                        *)
(*                                                                         *)
(* A DataFrame is a record [columns, rows]: the sequence of its column     *)
(* names and the sequence of its rows, each row a function from the column *)
(* names to cells.  A text cell is a string, NULL for a missing value; an  *)
(* amount cell is Num(n) or NaN.                                           *)
(***************************************************************************)
EXTENDS Integers, Sequences, FiniteSets, TLC

VARIABLES
    data_store,       \* st.session_state.data_store: dataset type -> DataFrame
    column_mappings,  \* st.session_state.column_mappings: type -> field -> column
    user_mappings,    \* history: the column the user explicitly chose per field
    limit,            \* the limit parameter extracted from the current query
    session_state,    \* the other keys of st.session_state that are modelled
    result            \* what the last operation returned

vars == <<data_store, column_mappings, user_mappings, limit, session_state, result>>

----------------------------------------------------------------------------
(* Bounds of the model *)

MaxRows == 3        \* rows of a dataset handed to the engine
MaxAmount == 2      \* amounts range over 0..MaxAmount and NaN

----------------------------------------------------------------------------
(* Cells, rows and data frames *)

None == "<None>"    \* Python None: an absent mapping, an absent column
NULL == "<NA>"      \* a missing text cell (pandas NaN in an object column)

NaN == [na |-> TRUE, val |-> 0]
Num(n) == [na |-> FALSE, val |-> n]
AmountCells == {NaN} \cup {Num(n) : n \in 0..MaxAmount}

\* The physical columns of an orders file.
OrderColumns ==
    <<"order_id", "status", "payment", "amount", "product", "city", "customer">>

EmptyFrame == [columns |-> <<>>, rows |-> <<>>]    \* pd.DataFrame()

Frame(cols, rs) == [columns |-> cols, rows |-> rs]

\* The set of names in df.columns
Cols(df) == {df.columns[i] : i \in 1..Len(df.columns)}

\* len(df)
Length(df) == Len(df.rows)

\* df[mask]: the rows satisfying Test, the columns kept
Where(df, Test(_)) == [columns |-> df.columns, rows |-> SelectSeq(df.rows, Test)]

\* Series.sum(): NaN cells are skipped, an empty or all-NaN series sums to 0
RECURSIVE SumRows(_, _)
SumRows(rs, col) ==
    IF rs = <<>> THEN 0
    ELSE (IF Head(rs)[col].na THEN 0 ELSE Head(rs)[col].val) + SumRows(Tail(rs), col)

\* Series.count(): the number of non-NaN cells
RECURSIVE CountRows(_, _)
CountRows(rs, col) ==
    IF rs = <<>> THEN 0
    ELSE (IF Head(rs)[col].na THEN 0 ELSE 1) + CountRows(Tail(rs), col)

\* A number the code computes by division, kept exact: num / den, or NaN.
Ratio(n, d) == [na |-> FALSE, num |-> n, den |-> d]
RatioNaN == [na |-> TRUE, num |-> 0, den |-> 1]
Zero == Ratio(0, 1)

\* Series.mean(): the mean of the non-NaN cells, NaN when there is none
MeanRows(rs, col) ==
    IF CountRows(rs, col) = 0 THEN RatioNaN
    ELSE Ratio(SumRows(rs, col), CountRows(rs, col))

----------------------------------------------------------------------------
(* utils/analytics.py: AnalyticsEngine(df, mappings) *)

\* The logical fields of the orders mapping the model uses.
Fields == {"order_id", "order_status", "total_amount", "payment_method",
           "product_name", "customer_name", "city"}

NoMappings == [f \in Fields |-> None]

_col(mappings, field) == mappings[field]

\* Python truthiness of an Optional[str] mapping value
Truthy(col) == col # None

_delivered_all_shipped(df, mappings) ==
    LET status_col == _col(mappings, "order_status") IN
    IF Truthy(status_col) /\ status_col \in Cols(df)
    THEN Where(df, LAMBDA r : r[status_col] \in {"Delivered", "RTO"})
    ELSE df

_delivered(df, mappings) ==
    LET status_col == _col(mappings, "order_status") IN
    IF Truthy(status_col) /\ status_col \in Cols(df)
    THEN Where(df, LAMBDA r : r[status_col] = "Delivered")
    ELSE df

_shipped(df, mappings) ==
    LET status_col == _col(mappings, "order_status") IN
    IF Truthy(status_col) /\ status_col \in Cols(df)
    THEN Where(df, LAMBDA r : r[status_col] \in {"Delivered", "RTO"})
    ELSE df

total_revenue(df, mappings) ==
    LET amount_col == _col(mappings, "total_amount")
        delivered == _delivered(df, mappings)
        value == IF Truthy(amount_col) /\ amount_col \in Cols(delivered)
                 THEN SumRows(delivered.rows, amount_col) ELSE 0
    IN [op |-> "total_revenue", value |-> value, orders |-> Length(delivered)]

aov_over_orders(df, mappings) ==
    LET amount_col == _col(mappings, "total_amount")
        delivered == _delivered(df, mappings)
        value == IF Truthy(amount_col) /\ amount_col \in Cols(delivered)
                    /\ Length(delivered) > 0
                 THEN Ratio(SumRows(delivered.rows, amount_col), Length(delivered))
                 ELSE Zero
    IN [op |-> "aov", value |-> value, orders |-> Length(delivered)]

aov(df, mappings) ==
    LET amount_col == _col(mappings, "total_amount")
        delivered == _delivered(df, mappings)
        value == IF Truthy(amount_col) /\ amount_col \in Cols(delivered)
                    /\ Length(delivered) > 0
                 THEN MeanRows(delivered.rows, amount_col) ELSE Zero
    IN [op |-> "aov", value |-> value, orders |-> Length(delivered)]

rto_rate_over_all(df, mappings) ==
    LET status_col == _col(mappings, "order_status") IN
    IF ~Truthy(status_col) \/ status_col \notin Cols(df)
    THEN [op |-> "rto_rate", value |-> Zero, rto_orders |-> 0, shipped |-> 0]
    ELSE LET shipped == _shipped(df, mappings)
             rto_count == Length(Where(shipped, LAMBDA r : r[status_col] = "RTO"))
             shipped_count == Length(shipped)
             rate == IF Length(df) > 0 THEN Ratio(rto_count * 100, Length(df)) ELSE Zero
         IN [op |-> "rto_rate", value |-> rate, rto_orders |-> rto_count,
             shipped |-> shipped_count]

rto_rate(df, mappings) ==
    LET status_col == _col(mappings, "order_status") IN
    IF ~Truthy(status_col) \/ status_col \notin Cols(df)
    THEN [op |-> "rto_rate", value |-> Zero, rto_orders |-> 0, shipped |-> 0]
    ELSE LET shipped == _shipped(df, mappings)
             rto_count == Length(Where(shipped, LAMBDA r : r[status_col] = "RTO"))
             shipped_count == Length(shipped)
             rate == IF shipped_count > 0 THEN Ratio(rto_count * 100, shipped_count)
                     ELSE Zero
         IN [op |-> "rto_rate", value |-> rate, rto_orders |-> rto_count,
             shipped |-> shipped_count]

----------------------------------------------------------------------------
(* The engine applied to every small orders dataset and mapping *)

NoResult == [op |-> "none"]

\* No key of st.session_state other than those of the variables above
NoKeys == <<>>

\* Statuses as the engine finds them in a stored status column.
StoredStatuses == {"Delivered", "RTO", "Cancelled"}

EngineRow(s, a) ==
    [order_id |-> "o1", status |-> s, payment |-> "COD", amount |-> a,
     product |-> "p1", city |-> "c1", customer |-> "u1"]

EngineRows == {EngineRow(s, a) : s \in StoredStatuses, a \in AmountCells}

SeqsUpTo(S, n) == UNION {[1..k -> S] : k \in 0..n}

\* A mapping value: absent, the column of the file, or a column the file lacks.
StatusChoices == {None, "status", "gone"}
AmountChoices == {None, "amount", "gone"}

EngineInit ==
    /\ \E rs \in SeqsUpTo(EngineRows, MaxRows) :
         data_store = [orders |-> Frame(OrderColumns, rs)]
    /\ \E s \in StatusChoices, a \in AmountChoices :
         column_mappings =
            [orders |-> [NoMappings EXCEPT !["order_status"] = s, !["total_amount"] = a]]
    /\ user_mappings = NoMappings
    /\ limit = 10
    /\ session_state = NoKeys
    /\ result = NoResult

TotalRevenue ==
    /\ result' = total_revenue(data_store.orders, column_mappings.orders)
    /\ UNCHANGED <<data_store, column_mappings, user_mappings, limit, session_state>>

Aov ==
    /\ result' = aov(data_store.orders, column_mappings.orders)
    /\ UNCHANGED <<data_store, column_mappings, user_mappings, limit, session_state>>

RtoRate ==
    /\ result' = rto_rate(data_store.orders, column_mappings.orders)
    /\ UNCHANGED <<data_store, column_mappings, user_mappings, limit, session_state>>

EngineNext == TotalRevenue \/ Aov \/ RtoRate

SpecEngine == EngineInit /\ [][EngineNext]_vars

----------------------------------------------------------------------------
(* What the claims about the engine speak of, stated over row positions *)

ValidCol(df, col) == col # None /\ col \in Cols(df)

\* Sum of the function f over a finite set I of row positions
RECURSIVE SumOver(_, _)
SumOver(I, f) ==
    IF I = {} THEN 0
    ELSE LET i == CHOOSE x \in I : TRUE IN f[i] + SumOver(I \ {i}, f)

RowsWithStatus(df, mappings, S) ==
    IF ValidCol(df, mappings["order_status"])
    THEN {i \in 1..Length(df) : df.rows[i][mappings["order_status"]] \in S}
    ELSE {}

\* The rows the engine takes for delivered: all of them without a status column.
DeliveredRows(df, mappings) ==
    IF ValidCol(df, mappings["order_status"])
    THEN RowsWithStatus(df, mappings, {"Delivered"})
    ELSE 1..Length(df)

KnownAmount(df, col, i) == ~df.rows[i][col].na

AmountAt(df, col, i) == IF df.rows[i][col].na THEN 0 ELSE df.rows[i][col].val

AmountOver(df, col, I) == SumOver(I, [i \in I |-> AmountAt(df, col, i)])

SetAmount(df, col, i, a) == [df EXCEPT !.rows[i][col] = a]

Orders == data_store.orders
OrderMappings == column_mappings.orders

\* C1: with order_status and total_amount mapped to existing columns,
\* total_revenue returns the sum of the amounts of exactly the rows whose
\* status is 'Delivered' and their number as orders, and no change of the
\* amount of a row that is not 'Delivered' changes the returned value.
C1_RevenueIsDeliveredSum ==
    (/\ result.op = "total_revenue"
     /\ ValidCol(Orders, OrderMappings["order_status"])
     /\ ValidCol(Orders, OrderMappings["total_amount"]))
    => LET col == OrderMappings["total_amount"]
           D == RowsWithStatus(Orders, OrderMappings, {"Delivered"})
       IN /\ result.value = AmountOver(Orders, col, D)
          /\ result.orders = Cardinality(D)
          /\ \A i \in (1..Length(Orders)) \ D : \A a \in AmountCells :
                total_revenue(SetAmount(Orders, col, i, a), OrderMappings).value
                    = result.value

C1_Witness ==
    /\ result.op = "total_revenue"
    /\ ValidCol(Orders, OrderMappings["order_status"])
    /\ ValidCol(Orders, OrderMappings["total_amount"])
    /\ result.value > 0
    /\ \E i \in 1..Length(Orders) :
          /\ Orders.rows[i].status = "RTO"
          /\ Orders.rows[i].amount = Num(MaxAmount)

\* C2: rto_rate returns a value in [0, 100]; the value is 0 when no row has
\* status Delivered or RTO, and otherwise value * (rto_count +
\* delivered_count) = 100 * rto_count; rto_orders = rto_count and shipped =
\* rto_count + delivered_count.
C2_RtoRateFormula ==
    result.op = "rto_rate"
    => LET rto_count == Cardinality(RowsWithStatus(Orders, OrderMappings, {"RTO"}))
           delivered_count ==
               Cardinality(RowsWithStatus(Orders, OrderMappings, {"Delivered"}))
           v == result.value
       IN /\ ~v.na /\ v.den > 0
          /\ 0 <= v.num /\ v.num <= 100 * v.den
          /\ (rto_count + delivered_count = 0 => v.num = 0)
          /\ v.num * (rto_count + delivered_count) = 100 * rto_count * v.den
          /\ result.rto_orders = rto_count
          /\ result.shipped = rto_count + delivered_count

C2_Witness ==
    /\ result.op = "rto_rate"
    /\ result.rto_orders = 1
    /\ result.shipped = 2
    /\ Length(Orders) = 3

----------------------------------------------------------------------------
(* Text.  A text cell of a file is a string or NULL (an empty cell, which  *)
(* pandas reads as NaN).  The str methods are tabulated over the strings    *)
(* that the model's column names and its status and payment cells can be.   *)

\* Series.astype(str): a missing cell becomes the string 'nan'
astype_str(c) == IF c = NULL THEN "nan" ELSE c

\* Series.fillna(value)
fillna(c, value) == IF c = NULL THEN value ELSE c
\* What a status cell can read, before and after cleaning
StatusStrings ==
    {"Cancelled", "Delivered", "Delivered ", "Nan", "RTO",
    "Returned After Delivery", "Rto", "Undelivered", "Unknown",
    "cancelled", "delivered", "delivered ", "nan",
    "returned after delivery", "rto", "undelivered", "unknown"}

\* What a payment cell can read, before and after cleaning
PaymentStrings ==
    {"CASH", "COD", "Cash", "GPAY", "GPay", "NAN", "PHONEPE", "PhonePe",
    "UNKNOWN", "UPI", "Unknown", "cash", "cod", "gpay", "nan", "phonepe",
    "unknown", "upi"}

\* Column names and their variations, before and after normalizing
NameStrings ==
    {" is cod", " is delivered", " is pending", " is prepaid", " is rto",
    " status", "_is_cod", "_is_delivered", "_is_pending", "_is_prepaid",
    "_is_rto", "_status", "amount", "billing city", "billing_city",
    "buyer", "buyer name", "buyer_name", "city", "client", "customer",
    "date",
    "customer city", "customer name", "customer_city", "customer_name",
    "customername", "delivery city", "delivery status", "delivery_city",
    "delivery_status", "financial status", "financial_status",
    "fulfillment status", "fulfillment_status", "full name", "full_name",
    "gateway", "grand total", "grand_total", "id", "invoice id",
    "invoice_id", "is cod", "is delivered", "is pending", "is prepaid",
    "is rto", "item", "item name", "item_name", "lineitem name",
    "lineitem_name", "location", "name", "order id", "order number",
    "order status", "order value", "order_id", "order_number",
    "order_status", "order_value", "orderid", "pay method", "pay_method",
    "payment", "payment method", "payment mode", "payment type",
    "payment_method", "payment_mode", "payment_type", "price", "product",
    "product name", "product title", "product_name", "product_title",
    "productname", "revenue", "shipping city", "shipping_city",
    "sku name", "sku_name", "state", "status", "subtotal", "total",
    "total amount", "total price", "total_amount", "total_price",
    "transaction id", "transaction_id"}

\* The names of cities, products and customers
GroupStrings ==
    {"c1", "c2", "c3", "c4", "p1", "p2", "p3", "p4", "u1", "u2", "u3", "u4"}

CellStrings == StatusStrings \cup PaymentStrings \cup GroupStrings

\* str.strip()
strip ==
    [s \in CellStrings \cup NameStrings |->
        CASE s = " is cod" -> "is cod"
          [] s = " is delivered" -> "is delivered"
          [] s = " is pending" -> "is pending"
          [] s = " is prepaid" -> "is prepaid"
          [] s = " is rto" -> "is rto"
          [] s = " status" -> "status"
          [] s = "Delivered " -> "Delivered"
          [] s = "delivered " -> "delivered"
          [] OTHER -> s]

\* str.title()
title ==
    [s \in CellStrings |->
        CASE s = "CASH" -> "Cash"
          [] s = "c1" -> "C1"
          [] s = "c2" -> "C2"
          [] s = "c3" -> "C3"
          [] s = "c4" -> "C4"
          [] s = "p1" -> "P1"
          [] s = "p2" -> "P2"
          [] s = "p3" -> "P3"
          [] s = "p4" -> "P4"
          [] s = "u1" -> "U1"
          [] s = "u2" -> "U2"
          [] s = "u3" -> "U3"
          [] s = "u4" -> "U4"
          [] s = "COD" -> "Cod"
          [] s = "GPAY" -> "Gpay"
          [] s = "GPay" -> "Gpay"
          [] s = "NAN" -> "Nan"
          [] s = "PHONEPE" -> "Phonepe"
          [] s = "PhonePe" -> "Phonepe"
          [] s = "RTO" -> "Rto"
          [] s = "UNKNOWN" -> "Unknown"
          [] s = "UPI" -> "Upi"
          [] s = "cancelled" -> "Cancelled"
          [] s = "cash" -> "Cash"
          [] s = "cod" -> "Cod"
          [] s = "delivered" -> "Delivered"
          [] s = "delivered " -> "Delivered "
          [] s = "gpay" -> "Gpay"
          [] s = "nan" -> "Nan"
          [] s = "phonepe" -> "Phonepe"
          [] s = "returned after delivery" -> "Returned After Delivery"
          [] s = "rto" -> "Rto"
          [] s = "undelivered" -> "Undelivered"
          [] s = "unknown" -> "Unknown"
          [] s = "upi" -> "Upi"
          [] OTHER -> s]

\* str.lower()
lower ==
    [s \in CellStrings \cup NameStrings |->
        CASE s = "CASH" -> "cash"
          [] s = "COD" -> "cod"
          [] s = "Cancelled" -> "cancelled"
          [] s = "Cash" -> "cash"
          [] s = "Delivered" -> "delivered"
          [] s = "Delivered " -> "delivered "
          [] s = "GPAY" -> "gpay"
          [] s = "GPay" -> "gpay"
          [] s = "NAN" -> "nan"
          [] s = "Nan" -> "nan"
          [] s = "PHONEPE" -> "phonepe"
          [] s = "PhonePe" -> "phonepe"
          [] s = "RTO" -> "rto"
          [] s = "Returned After Delivery" -> "returned after delivery"
          [] s = "Rto" -> "rto"
          [] s = "UNKNOWN" -> "unknown"
          [] s = "UPI" -> "upi"
          [] s = "Undelivered" -> "undelivered"
          [] s = "Unknown" -> "unknown"
          [] OTHER -> s]

\* str.upper()
upper ==
    [s \in PaymentStrings |->
        CASE s = "Cash" -> "CASH"
          [] s = "GPay" -> "GPAY"
          [] s = "PhonePe" -> "PHONEPE"
          [] s = "Unknown" -> "UNKNOWN"
          [] s = "cash" -> "CASH"
          [] s = "cod" -> "COD"
          [] s = "gpay" -> "GPAY"
          [] s = "nan" -> "NAN"
          [] s = "phonepe" -> "PHONEPE"
          [] s = "unknown" -> "UNKNOWN"
          [] s = "upi" -> "UPI"
          [] OTHER -> s]

\* str.replace('_', ' ')
replace_underscore ==
    [s \in NameStrings |->
        CASE s = "_is_cod" -> " is cod"
          [] s = "_is_delivered" -> " is delivered"
          [] s = "_is_pending" -> " is pending"
          [] s = "_is_prepaid" -> " is prepaid"
          [] s = "_is_rto" -> " is rto"
          [] s = "_status" -> " status"
          [] s = "billing_city" -> "billing city"
          [] s = "buyer_name" -> "buyer name"
          [] s = "customer_city" -> "customer city"
          [] s = "customer_name" -> "customer name"
          [] s = "delivery_city" -> "delivery city"
          [] s = "delivery_status" -> "delivery status"
          [] s = "financial_status" -> "financial status"
          [] s = "fulfillment_status" -> "fulfillment status"
          [] s = "full_name" -> "full name"
          [] s = "grand_total" -> "grand total"
          [] s = "invoice_id" -> "invoice id"
          [] s = "item_name" -> "item name"
          [] s = "lineitem_name" -> "lineitem name"
          [] s = "order_id" -> "order id"
          [] s = "order_number" -> "order number"
          [] s = "order_status" -> "order status"
          [] s = "order_value" -> "order value"
          [] s = "pay_method" -> "pay method"
          [] s = "payment_method" -> "payment method"
          [] s = "payment_mode" -> "payment mode"
          [] s = "payment_type" -> "payment type"
          [] s = "product_name" -> "product name"
          [] s = "product_title" -> "product title"
          [] s = "shipping_city" -> "shipping city"
          [] s = "sku_name" -> "sku name"
          [] s = "total_amount" -> "total amount"
          [] s = "total_price" -> "total price"
          [] s = "transaction_id" -> "transaction id"
          [] OTHER -> s]

\* The words of the helper patterns that occur in a string as substrings
Substrings ==
    [s \in CellStrings |->
        CASE s \in {"cash"} -> {"cash"}
          [] s \in {"cod"} -> {"cod"}
          [] s \in {"Undelivered", "delivered", "delivered ",
                     "undelivered"} -> {"deliver"}
          [] s \in {"returned after delivery"} -> {"deliver", "return"}
          [] s \in {"rto"} -> {"rto"}
          [] OTHER -> {}]

\* Series.str.contains('a|b'): some alternative occurs in the string
contains(s, alternatives) == Substrings[s] \cap alternatives # {}

\* Series.replace(dict): a cell equal to a key becomes the key's value
replace(s, map) == IF s \in DOMAIN map THEN map[s] ELSE s

\* status_map of clean_dataframe_on_import
status_map ==
       ("Delivered" :> "Delivered")
    @@ ("Completed" :> "Delivered")
    @@ ("Complete" :> "Delivered")
    @@ ("Success" :> "Delivered")
    @@ ("Shipped" :> "Shipped")
    @@ ("In Transit" :> "Shipped")
    @@ ("Intransit" :> "Shipped")
    @@ ("Processing" :> "Processing")
    @@ ("Pending" :> "Processing")
    @@ ("Confirmed" :> "Processing")
    @@ ("Rto" :> "RTO")
    @@ ("Returned" :> "RTO")
    @@ ("Return" :> "RTO")
    @@ ("Cancelled" :> "Cancelled")
    @@ ("Canceled" :> "Cancelled")
    @@ ("Cancel" :> "Cancelled")

\* payment_map of clean_dataframe_on_import
payment_map ==
       ("UPI" :> "UPI")
    @@ ("GPAY" :> "UPI")
    @@ ("PHONEPE" :> "UPI")
    @@ ("PAYTM" :> "UPI")
    @@ ("COD" :> "COD")
    @@ ("CASH ON DELIVERY" :> "COD")
    @@ ("CASH" :> "COD")
    @@ ("CARD" :> "Card")
    @@ ("CREDIT CARD" :> "Card")
    @@ ("DEBIT CARD" :> "Card")
    @@ ("CC" :> "Card")
    @@ ("DC" :> "Card")
    @@ ("NETBANKING" :> "NetBanking")
    @@ ("NET BANKING" :> "NetBanking")
    @@ ("NB" :> "NetBanking")
    @@ ("WALLET" :> "Wallet")
    @@ ("PREPAID" :> "Prepaid")
    @@ ("EMI" :> "EMI")
\* COLUMN_MAPPINGS['orders'] of auto_map_columns_for_type, the modelled fields
APP_COLUMN_MAPPINGS ==
    [product_name |-> <<"product_name", "product name", "productname",
                      "item_name", "item name", "lineitem_name",
                      "lineitem name", "sku_name", "product_title">>,
     customer_name |-> <<"customer_name", "customer name", "customername",
                       "buyer_name", "buyer name">>,
     order_id |-> <<"order_id", "order id", "orderid",
                  "order_number", "transaction_id">>,
     total_amount |-> <<"total_amount", "amount", "total", "grand_total",
                      "order_value", "subtotal", "total_price">>,
     payment_method |-> <<"payment_method", "payment", "payment_type",
                        "pay_method", "payment_mode", "gateway">>,
     order_status |-> <<"order_status", "status", "delivery_status",
                      "fulfillment_status", "financial_status">>,
     city |-> <<"city", "shipping_city", "billing_city",
              "customer_city", "delivery_city">>]

\* COLUMN_MAPPINGS['orders'] of the Data Manager, the modelled fields
COLUMN_MAPPINGS ==
    [order_id |-> <<"order_id", "order id", "orderid", "id",
                  "order_number", "transaction_id", "invoice_id">>,
     customer_name |-> <<"customer_name", "customer", "name", "buyer",
                       "client", "customer name", "full_name">>,
     product_name |-> <<"product_name", "product", "item", "item_name",
                      "product name", "sku_name">>,
     total_amount |-> <<"total_amount", "amount", "total", "price",
                      "revenue", "order_value", "total_price",
                      "grand_total">>,
     payment_method |-> <<"payment_method", "payment", "payment_type",
                        "pay_method", "payment method", "payment_mode">>,
     order_status |-> <<"order_status", "status", "delivery_status",
                      "fulfillment_status", "state", "order status">>,
     city |-> <<"city", "customer_city", "shipping_city",
              "delivery_city", "location">>]

----------------------------------------------------------------------------
(* Import: cleaning, column auto-mapping and the two import paths *)

\* The rows of rs at the positions in I, in order
RECURSIVE Pick(_, _, _)
Pick(rs, I, k) ==
    IF k > Len(rs) THEN <<>>
    ELSE (IF k \in I THEN <<rs[k]>> ELSE <<>>) \o Pick(rs, I, k + 1)

\* DataFrame.drop_duplicates(): the first of equal rows stays
drop_duplicates(rs) ==
    Pick(rs, {i \in 1..Len(rs) : ~\E j \in 1..(i - 1) : rs[j] = rs[i]}, 1)

\* DataFrame.drop_duplicates(subset=[col], keep='last')
drop_duplicates_keep_last(rs, col) ==
    Pick(rs, {i \in 1..Len(rs) :
                ~\E j \in (i + 1)..Len(rs) : rs[j][col] = rs[i][col]}, 1)

\* any(kw in col.lower() for kw in [...]) for the columns of the model
IsStatusColumn(col) == col \in {"status"}
IsPaymentColumn(col) == col \in {"payment"}

\* for col in columns: if <col has the keyword>: df[col] = Change(df[col])
MapCells(rs, IsKind(_), Change(_)) ==
    [i \in 1..Len(rs) |->
        [c \in DOMAIN rs[i] |-> IF IsKind(c) THEN Change(rs[i][c]) ELSE rs[i][c]]]

Range(s) == {s[i] : i \in 1..Len(s)}

DigitChars == <<"0", "1", "2", "3", "4", "5", "6", "7", "8", "9">>

\* A text cell of an amount column: its characters in order.  "rupee" is
\* the character U+20B9
Text(chars) == [text |-> chars]
IsText(c) == "text" \in DOMAIN c

\* A float that is not whole: n / 10^places, where n does not end in 0
Dec(n, places) == [na |-> FALSE, val |-> n, places |-> places]
IsDec(c) == "places" \in DOMAIN c

\* str(n) of a natural number
RECURSIVE digits(_)
digits(n) ==
    IF n < 10 THEN <<DigitChars[n + 1]>>
    ELSE digits(n \div 10) \o <<DigitChars[(n % 10) + 1]>>

\* The digits of n, with zeros in front up to the length k
RECURSIVE zfill(_, _)
zfill(ds, k) == IF Len(ds) >= k THEN ds ELSE zfill(<<"0">> \o ds, k)

\* The dtype of a column: object with a text cell, float64 with a missing or
\* fractional number, int64 otherwise
dtype(rs, col) ==
    IF \E i \in 1..Len(rs) : IsText(rs[i][col]) THEN "object"
    ELSE IF \E i \in 1..Len(rs) : rs[i][col].na \/ IsDec(rs[i][col]) THEN "float64"
    ELSE "int64"

\* Series.astype(str) on a cell of an amount column of the given dtype
amount_str(c, column_dtype) ==
    IF IsText(c) THEN c.text
    ELSE IF c.na THEN <<"n", "a", "n">>
    ELSE IF IsDec(c)
    THEN LET ds == zfill(digits(c.val), c.places + 1)
         IN SubSeq(ds, 1, Len(ds) - c.places) \o <<".">>
            \o SubSeq(ds, Len(ds) - c.places + 1, Len(ds))
    ELSE IF column_dtype = "float64" THEN digits(c.val) \o <<".", "0">>
    ELSE digits(c.val)

\* Series.str.replace(r'[...]', '', regex=True): the characters of the class
\* are removed
str_replace(chars, class) == SelectSeq(chars, LAMBDA ch : ch \notin class)

\* int(text) of a sequence of digits
RECURSIVE int(_)
int(ds) ==
    IF ds = <<>> THEN 0
    ELSE int(SubSeq(ds, 1, Len(ds) - 1)) * 10
         + (CHOOSE d \in 0..9 : DigitChars[d + 1] = ds[Len(ds)])

\* n / 10^places without the zeros at the end of the fraction
RECURSIVE number(_, _)
number(n, places) ==
    IF places = 0 THEN Num(n)
    ELSE IF n % 10 = 0 THEN number(n \div 10, places - 1)
    ELSE Dec(n, places)

\* pd.to_numeric(text, errors='coerce'): digits with at most one point are
\* the number, any other text is NaN
to_numeric(chars) ==
    LET points == {k \in 1..Len(chars) : chars[k] = "."}
        ds == SelectSeq(chars, LAMBDA ch : ch # ".")
    IN IF /\ \A k \in 1..Len(chars) : chars[k] \in Range(DigitChars) \cup {"."}
          /\ Cardinality(points) <= 1
          /\ ds # <<>>
       THEN number(int(ds), IF points = {} THEN 0
                            ELSE Len(chars) - (CHOOSE k \in points : TRUE))
       ELSE NaN

\* df[col] = pd.to_numeric(df[col].astype(str).str.replace(class, ''),
\*                         errors='coerce')
clean_amounts(rs, col, class) ==
    [i \in 1..Len(rs) |->
        [rs[i] EXCEPT ![col] =
            to_numeric(str_replace(amount_str(rs[i][col], dtype(rs, col)), class))]]

\* r'[₹$€£,\s]' of clean_dataframe_on_import
APP_CURRENCY == {"rupee", "$", "euro", "pound", ",", " "}

\* r'[₹$,\s]' of the Data Manager's clean_dataframe
DM_CURRENCY == {"rupee", "$", ",", " "}

\* The class of DataProcessor.clean_dataframe: the source holds the three
\* characters U+00E2 U+201A U+00B9 in the place of the rupee sign, then
\* $ , R s \. \s
PROCESSOR_CURRENCY == {"U+00E2", "U+201A", "U+00B9", "$", ",", "R", "s", ".", " "}

\* any(kw in col.lower() for kw in ['amount', 'price', 'total', ...]) for
\* the columns of the model
IsAmountColumn(col) == col \in {"amount"}

\* Step 4 on the amount columns of the rows
RECURSIVE clean_amount_columns(_, _, _)
clean_amount_columns(rs, columns, class) ==
    IF columns = <<>> THEN rs
    ELSE clean_amount_columns(
            IF IsAmountColumn(Head(columns)) THEN clean_amounts(rs, Head(columns), class)
            ELSE rs,
            Tail(columns), class)

\* Step 5 of clean_dataframe_on_import on one cell
app_clean_status(c) == replace(title[strip[astype_str(c)]], status_map)

\* Step 6 of clean_dataframe_on_import on one cell
app_clean_payment(c) == replace(upper[strip[astype_str(c)]], payment_map)

\* Step 7 of clean_dataframe_on_import on one cell
fill_unknown(c) == fillna(c, "Unknown")

clean_dataframe_on_import(df) ==
    LET deduped == drop_duplicates(df.rows)
        amounts == clean_amount_columns(deduped, df.columns, APP_CURRENCY)
        statuses == MapCells(amounts, IsStatusColumn, app_clean_status)
        payments == MapCells(statuses, IsPaymentColumn, app_clean_payment)
        filled == MapCells(MapCells(payments, IsStatusColumn, fill_unknown),
                           IsPaymentColumn, fill_unknown)
    IN Frame(df.columns, filled)

\* Step 5 of the Data Manager's clean_dataframe on one cell: no synonym map
dm_clean_status(c) == title[strip[astype_str(c)]]

\* col.lower().replace('_', ' ').strip()
normalize(col) == strip[replace_underscore[lower[col]]]

\* The first column of df, in column order, whose normalized name is among
\* names; None when there is none (the key is then absent from the dict)
first_match(columns, names) ==
    LET hits == {k \in 1..Len(columns) : normalize(columns[k]) \in names}
    IN IF hits = {} THEN None
       ELSE columns[CHOOSE k \in hits : \A j \in hits : k <= j]

\* auto_map_columns_for_type: the variations are normalized as the column is
app_variations ==
    [f \in Fields |->
        {replace_underscore[lower[v]] : v \in Range(APP_COLUMN_MAPPINGS[f])}]

auto_map_columns_for_type(df) ==
    [f \in Fields |-> first_match(df.columns, app_variations[f])]

\* auto_map_columns of the Data Manager: the variations are only lower-cased
dm_variations ==
    [f \in Fields |-> {lower[v] : v \in Range(COLUMN_MAPPINGS[f])}]

auto_map_columns(df) ==
    [f \in Fields |-> first_match(df.columns, dm_variations[f])]

clean_dataframe(df) ==
    LET deduped == drop_duplicates(df.rows)
        amounts == clean_amount_columns(deduped, df.columns, DM_CURRENCY)
        statuses == MapCells(amounts, IsStatusColumn, dm_clean_status)
        mappings == auto_map_columns(df)
        filled == MapCells(statuses,
                           LAMBDA c : c \in {mappings["order_status"],
                                             mappings["payment_method"]},
                           fill_unknown)
    IN Frame(df.columns, filled)

\* pd.concat([existing, df]) of two frames with the same columns
concat(existing, df) == Frame(df.columns, existing.rows \o df.rows)

----------------------------------------------------------------------------
(* A session: files are imported on either path, then questions are asked *)

MaxFileRows == 1
MaxStoreRows == 2

RawStatuses == {"delivered ", "rto", "Undelivered", "cancelled",
                "Returned After Delivery", NULL}
RawPayments == {"COD", "Cash", "GPay", "PhonePe"}

FileRow(id, s, p, a) ==
    [order_id |-> id, status |-> s, payment |-> p, amount |-> a,
     product |-> "p1", city |-> "c1", customer |-> "u1"]

\* The rows of uploaded files: a delivered cash-on-delivery order of amount 1
\* under two ids, and its variations in one cell
FileRows ==
    {FileRow(id, "delivered ", "COD", Num(1)) : id \in {"o1", "o2"}}
    \cup {FileRow("o1", s, "COD", Num(1)) : s \in RawStatuses}
    \cup {FileRow("o1", "delivered ", p, Num(1)) : p \in RawPayments}
    \cup {FileRow("o1", "delivered ", "COD", a) : a \in {NaN, Num(2)}}

Files == {Frame(OrderColumns, rs) :
            rs \in SeqsUpTo(FileRows, MaxFileRows) \ {<<>>}}

\* The manual column mapping of an uploaded file: fields left on
\* '(Auto-detect)' are None
ManualChoices ==
    {[NoMappings EXCEPT !["product_name"] = p, !["city"] = c] :
        p \in {None, "product", "city"}, c \in {None, "city"}}

SessionInit ==
    /\ data_store = [orders |-> EmptyFrame]
    /\ column_mappings = [orders |-> NoMappings]
    /\ user_mappings = NoMappings
    /\ limit = 10
    /\ session_state = NoKeys
    /\ result = NoResult

\* 'Import & Clean All Files' of the onboarding page, for one orders file
OnboardingImport(file, manual_mapping) ==
    LET df == clean_dataframe_on_import(file)
        existing == data_store.orders
        merged == IF Length(existing) > 0
                  THEN Frame(df.columns, drop_duplicates(concat(existing, df).rows))
                  ELSE df
        existing_map == column_mappings.orders
    IN /\ Length(merged) <= MaxStoreRows
       /\ data_store' = [data_store EXCEPT !.orders = merged]
       /\ column_mappings' =
            [column_mappings EXCEPT !.orders =
                IF manual_mapping # NoMappings
                THEN [f \in Fields |-> IF manual_mapping[f] # None
                                       THEN manual_mapping[f] ELSE existing_map[f]]
                ELSE auto_map_columns_for_type(merged)]
       /\ user_mappings' = [f \in Fields |-> IF manual_mapping[f] # None
                                             THEN manual_mapping[f] ELSE user_mappings[f]]
       /\ result' = NoResult
       /\ UNCHANGED <<limit, session_state>>

\* The import button of the Data Manager, for one orders file
DataManagerImport(file, clean_on_import, merge_existing) ==
    LET mappings == auto_map_columns(file)
        df == IF clean_on_import THEN clean_dataframe(file) ELSE file
        existing == data_store.orders
        id_col == mappings["order_id"]
        both == concat(existing, df)
        merged == IF merge_existing /\ Length(existing) > 0
                  THEN Frame(df.columns,
                             IF Truthy(id_col) /\ id_col \in Cols(both)
                             THEN drop_duplicates_keep_last(both.rows, id_col)
                             ELSE drop_duplicates(both.rows))
                  ELSE df
    IN IF "orders" \in DOMAIN data_store
       THEN /\ Length(merged) <= MaxStoreRows
            /\ column_mappings' = ("orders" :> mappings) @@ column_mappings
            /\ data_store' = [data_store EXCEPT !.orders = merged]
            /\ result' = NoResult
            /\ UNCHANGED <<user_mappings, limit, session_state>>
       ELSE \* data_store[data_type] raises a KeyError, which the page shows
            \* as an error: the mappings are stored and the rows are not
            /\ column_mappings' = ("orders" :> mappings) @@ column_mappings
            /\ result' = [op |-> "import", ok |-> FALSE, content |-> "KeyError"]
            /\ UNCHANGED <<data_store, user_mappings, limit, session_state>>

----------------------------------------------------------------------------
(* The chat pipeline: DataAnalyzer over the session's orders *)

has_data(store) == Length(store.orders) > 0

\* The rows of df with the fields of extra(row) added
WithColumns(df, names, extra(_)) ==
    Frame(df.columns \o names,
          [i \in 1..Length(df) |-> extra(df.rows[i]) @@ df.rows[i]])

get_orders_with_helpers(df, order_mappings) ==
    LET status_col == order_mappings["order_status"]
        payment_col == order_mappings["payment_method"]
        flagged ==
            IF Truthy(status_col) /\ status_col \in Cols(df)
            THEN WithColumns(df, <<"_status", "_is_delivered", "_is_rto", "_is_pending">>,
                    LAMBDA r :
                      LET _status == lower[astype_str(r[status_col])]
                      IN [_status |-> _status,
                          _is_delivered |-> contains(_status, {"deliver", "complete", "success"}),
                          _is_rto |-> contains(_status, {"rto", "return"}),
                          _is_pending |-> contains(_status, {"pending", "process", "transit"})])
            ELSE df
    IN IF Truthy(payment_col) /\ payment_col \in Cols(df)
       THEN WithColumns(flagged, <<"_is_cod", "_is_prepaid">>,
               LAMBDA r :
                 LET _is_cod == contains(lower[astype_str(r[payment_col])], {"cod", "cash"})
                 IN [_is_cod |-> _is_cod, _is_prepaid |-> ~_is_cod])
       ELSE flagged

\* df[df['_is_delivered']] if '_is_delivered' in df.columns else df
helper_delivered(df) ==
    IF "_is_delivered" \in Cols(df) THEN Where(df, LAMBDA r : r._is_delivered) ELSE df

\* df[df['_is_rto']] if '_is_rto' in df.columns else pd.DataFrame()
helper_rto(df) ==
    IF "_is_rto" \in Cols(df) THEN Where(df, LAMBDA r : r._is_rto) ELSE EmptyFrame

\* (len(rto) / rto_base * 100) if rto_base > 0 else 0
helper_rto_rate(delivered, rto) ==
    LET rto_base == Length(delivered) + Length(rto)
    IN IF rto_base > 0 THEN Ratio(Length(rto) * 100, rto_base) ELSE Zero

Message(name, text) == [op |-> name, ok |-> FALSE, content |-> text]

get_revenue_analysis(store, mappings) ==
    LET df == get_orders_with_helpers(store.orders, mappings.orders)
        amount_col == mappings.orders["total_amount"]
        delivered == helper_delivered(df)
    IN IF ~has_data(store)
       THEN Message("get_revenue_analysis", "No orders data available")
       ELSE IF ~Truthy(amount_col) \/ amount_col \notin Cols(df)
       THEN Message("get_revenue_analysis", "Amount column not found in orders")
       ELSE [op |-> "get_revenue_analysis", ok |-> TRUE, has_revenue |-> TRUE,
             revenue |-> SumRows(delivered.rows, amount_col),
             aov |-> MeanRows(delivered.rows, amount_col),
             orders |-> Length(delivered)]

\* The overview of get_summary and of get_orders_analysis
orders_overview(name, store, mappings) ==
    LET df == get_orders_with_helpers(store.orders, mappings.orders)
        amount_col == mappings.orders["total_amount"]
        delivered == helper_delivered(df)
        rto == helper_rto(df)
        has_amount == Truthy(amount_col) /\ amount_col \in Cols(df)
    IN [op |-> name, ok |-> TRUE,
        total_orders |-> Length(df),
        delivered |-> Length(delivered),
        rto |-> Length(rto),
        has_revenue |-> has_amount,
        revenue |-> IF has_amount THEN SumRows(delivered.rows, amount_col) ELSE 0,
        aov |-> IF has_amount THEN MeanRows(delivered.rows, amount_col) ELSE Zero,
        rto_base |-> Length(delivered) + Length(rto),
        rto_rate |-> helper_rto_rate(delivered, rto)]

get_summary(store, mappings) ==
    IF ~has_data(store)
    THEN Message("get_summary", "summary without orders")
    ELSE orders_overview("get_summary", store, mappings)

get_orders_analysis(store, mappings) ==
    IF ~has_data(store)
    THEN Message("get_orders_analysis", "No orders data available")
    ELSE orders_overview("get_orders_analysis", store, mappings)

get_rto_analysis(store, mappings) ==
    LET df == get_orders_with_helpers(store.orders, mappings.orders)
        delivered == helper_delivered(df)
        rto == helper_rto(df)
    IN IF ~has_data(store)
       THEN Message("get_rto_analysis", "No orders data available")
       ELSE IF "_is_rto" \notin Cols(df)
       THEN Message("get_rto_analysis", "Status column not found for RTO analysis")
       ELSE [op |-> "get_rto_analysis", ok |-> TRUE,
             rto_rate |-> helper_rto_rate(delivered, rto),
             rto |-> Length(rto),
             delivered |-> Length(delivered),
             rto_base |-> Length(delivered) + Length(rto)]

----------------------------------------------------------------------------
(* Grouping and ranking *)

\* The group keys in lexicographic order, as groupby sorts them
KeyOrder ==
    <<"COD", "Delivered", "RTO",
      "c1", "c2", "c3", "c4", "d1", "d2", "p1", "p2", "p3", "p4",
      "u1", "u2", "u3", "u4">>
Rank(k) == CHOOSE i \in 1..Len(KeyOrder) : KeyOrder[i] = k

\* df.groupby(dim_col): the keys; rows with a missing key are dropped
GroupKeys(rs, dim_col) == {rs[i][dim_col] : i \in 1..Len(rs)} \ {NULL}

\* groupby(dim_col)[amount_col].agg(['sum', 'mean', 'count'])
groupby_agg(rs, dim_col, amount_col) ==
    {LET group == SelectSeq(rs, LAMBDA r : r[dim_col] = k)
     IN [key |-> k,
         revenue |-> SumRows(group, amount_col),
         average |-> MeanRows(group, amount_col),
         orders |-> CountRows(group, amount_col)] : k \in GroupKeys(rs, dim_col)}

\* df[dim_col].value_counts(), before its ordering by count
value_counts(rs, dim_col) ==
    {[key |-> k, orders |-> Len(SelectSeq(rs, LAMBDA r : r[dim_col] = k))] :
        k \in GroupKeys(rs, dim_col)}

\* The group that a descending sort by the column 'by' puts first: the
\* largest value, and among equal values the first key
First(T, by) ==
    CHOOSE g \in T : \A h \in T :
        \/ g[by] > h[by]
        \/ g[by] = h[by] /\ Rank(g.key) <= Rank(h.key)

\* sort_values(by, ascending=False)
RECURSIVE sort_values(_, _)
sort_values(T, by) ==
    IF T = {} THEN <<>>
    ELSE <<First(T, by)>> \o sort_values(T \ {First(T, by)}, by)

\* DataFrame.head(n) and nlargest(n, by) of a grouped table
head(table, n) == SubSeq(table, 1, IF n < Len(table) THEN n ELSE Len(table))
nlargest(T, n, by) == head(sort_values(T, by), n)

\* dict.get(key): None for an absent key
get(mappings, key) == IF key \in DOMAIN mappings THEN mappings[key] ELSE None

\* f'{dim}_name'
NameField(dim) ==
    CASE dim = "city" -> "city_name"
      [] dim = "product" -> "product_name"
      [] dim = "customer" -> "customer_name"

\* The words that the handlers look for in a column name ('p in col.lower()')
\* and that occur in the name of a column of the model
Words(col) ==
    CASE col \in {"order_id", "_is_prepaid"} -> {"id"}
      [] col \in {"status", "_status"} -> {"status"}
      [] col \in {"payment", "amount", "product", "city", "customer"} -> {col}
      [] col \in {"_is_delivered", "_is_rto", "_is_pending", "_is_cod", "date"} -> {}

\* 'dim.lower() in col.lower()'
ColumnHas(col, dim) == dim \in Words(col)

\* The breakdown branch of DataAnalysisLLM.execute_data_query for one dimension
execute_data_query(store, mappings, dim) ==
    LET order_mappings == mappings.orders
        status_col == order_mappings["order_status"]
        df == IF Truthy(status_col) /\ status_col \in Cols(store.orders)
              THEN WithColumns(store.orders, <<"_status", "_is_delivered", "_is_rto">>,
                      LAMBDA r :
                        LET _status == lower[astype_str(r[status_col])]
                        IN [_status |-> _status,
                            _is_delivered |-> contains(_status, {"deliver", "complete", "success"}),
                            _is_rto |-> contains(_status, {"rto", "return"})])
              ELSE store.orders
        amount_col == order_mappings["total_amount"]
        mapped == IF Truthy(get(order_mappings, dim)) THEN get(order_mappings, dim)
                  ELSE get(order_mappings, NameField(dim))
        found == {k \in 1..Len(df.columns) : ColumnHas(df.columns[k], dim)}
        dim_col == IF Truthy(mapped) THEN mapped
                   ELSE IF found = {} THEN None
                   ELSE df.columns[CHOOSE k \in found : \A j \in found : k <= j]
    IN IF Length(store.orders) = 0 THEN Message("execute_data_query", "None")
       ELSE IF ~(Truthy(dim_col) /\ dim_col \in Cols(df))
       THEN Message("execute_data_query", "None")
       ELSE IF Truthy(amount_col) /\ amount_col \in Cols(df)
       THEN [op |-> "execute_data_query", ok |-> TRUE, dim_col |-> dim_col,
             has_revenue |-> TRUE,
             table |-> sort_values(groupby_agg(df.rows, dim_col, amount_col), "revenue")]
       ELSE [op |-> "execute_data_query", ok |-> TRUE, dim_col |-> dim_col,
             has_revenue |-> FALSE,
             table |-> sort_values(value_counts(df.rows, dim_col), "orders")]

\* round(n / d * 100, 2), in hundredths of a percent
round2(n, d) == (2 * n * 10000 + d) \div (2 * d)

\* AnalyticsEngine.cod_vs_prepaid: the figures of one payment type
payment_partition(df, mappings, ptype) ==
    LET payment_col == _col(mappings, "payment_method")
        amount_col == _col(mappings, "total_amount")
        status_col == _col(mappings, "order_status")
        subset == Where(df, LAMBDA r :
                     (IF r[payment_col] = "COD" THEN "COD" ELSE "Prepaid") = ptype)
        delivered == Where(subset, LAMBDA r : r[status_col] = "Delivered")
        shipped == Where(subset, LAMBDA r : r[status_col] \in {"Delivered", "RTO"})
        rto_count == Length(Where(shipped, LAMBDA r : r[status_col] = "RTO"))
        shipped_count == Length(shipped)
    IN [total_orders |-> Length(subset),
        delivered_orders |-> Length(delivered),
        revenue |-> IF Length(delivered) > 0
                    THEN SumRows(delivered.rows, amount_col) ELSE 0,
        aov |-> IF Length(delivered) > 0
                THEN MeanRows(delivered.rows, amount_col) ELSE Zero,
        rto_rate |-> IF shipped_count > 0 THEN round2(rto_count, shipped_count) ELSE 0,
        rto_orders |-> rto_count,
        shipped_orders |-> shipped_count]

\* df[payment_col], subset[status_col] and delivered[amount_col] raise a
\* KeyError for a column that df lacks; delivered[amount_col] is evaluated
\* only for a partition with a delivered order
cod_vs_prepaid(df, mappings) ==
    IF ~(/\ Truthy(_col(mappings, "payment_method"))
         /\ Truthy(_col(mappings, "total_amount"))
         /\ Truthy(_col(mappings, "order_status")))
    THEN [op |-> "cod_vs_prepaid", ok |-> FALSE]
    ELSE IF \/ _col(mappings, "payment_method") \notin Cols(df)
            \/ _col(mappings, "order_status") \notin Cols(df)
            \/ /\ _col(mappings, "total_amount") \notin Cols(df)
               /\ Length(_delivered(df, mappings)) > 0
    THEN [op |-> "cod_vs_prepaid", ok |-> FALSE, content |-> "KeyError"]
    ELSE [op |-> "cod_vs_prepaid", ok |-> TRUE,
          COD |-> payment_partition(df, mappings, "COD"),
          Prepaid |-> payment_partition(df, mappings, "Prepaid")]

----------------------------------------------------------------------------
(* The questions of a session *)

Unchanged == UNCHANGED <<data_store, column_mappings, user_mappings, limit, session_state>>

GetRevenueAnalysis ==
    result' = get_revenue_analysis(data_store, column_mappings) /\ Unchanged

GetSummary ==
    result' = get_summary(data_store, column_mappings) /\ Unchanged

GetOrdersAnalysis ==
    result' = get_orders_analysis(data_store, column_mappings) /\ Unchanged

GetRtoAnalysis ==
    result' = get_rto_analysis(data_store, column_mappings) /\ Unchanged

ExecuteDataQuery ==
    \E dim \in {"city", "product"} :
        result' = execute_data_query(data_store, column_mappings, dim) /\ Unchanged

CodVsPrepaid ==
    result' = cod_vs_prepaid(data_store.orders, column_mappings.orders) /\ Unchanged

Init == SessionInit

Next ==
    \/ \E file \in Files : OnboardingImport(file, NoMappings)
    \/ \E file \in Files, clean_on_import \in BOOLEAN, merge_existing \in BOOLEAN :
          DataManagerImport(file, clean_on_import, merge_existing)
    \/ GetRevenueAnalysis
    \/ GetSummary
    \/ GetOrdersAnalysis
    \/ GetRtoAnalysis
    \/ ExecuteDataQuery
    \/ CodVsPrepaid

Spec == Init /\ [][Next]_vars

----------------------------------------------------------------------------
(* The canonical status and payment type of a cell: DataProcessor *)

\* DataProcessor.STATUS_MAP
STATUS_MAP ==
       ("delivered" :> "Delivered")
    @@ ("completed" :> "Delivered")
    @@ ("fulfilled" :> "Delivered")
    @@ ("success" :> "Delivered")
    @@ ("successful" :> "Delivered")
    @@ ("cancelled" :> "Cancelled")
    @@ ("canceled" :> "Cancelled")
    @@ ("refunded" :> "Cancelled")
    @@ ("rto" :> "RTO")
    @@ ("returned" :> "RTO")
    @@ ("return" :> "RTO")
    @@ ("undelivered" :> "RTO")
    @@ ("return to origin" :> "RTO")
    @@ ("failed delivery" :> "RTO")
    @@ ("failed" :> "RTO")
    @@ ("processing" :> "Processing")
    @@ ("pending" :> "Processing")
    @@ ("confirmed" :> "Processing")
    @@ ("new" :> "Processing")
    @@ ("placed" :> "Processing")
    @@ ("shipped" :> "Shipped")
    @@ ("in transit" :> "Shipped")
    @@ ("dispatched" :> "Shipped")

\* DataProcessor.PAYMENT_MAP
PAYMENT_MAP ==
       ("cod" :> "COD")
    @@ ("cash on delivery" :> "COD")
    @@ ("cash" :> "COD")
    @@ ("upi" :> "UPI")
    @@ ("gpay" :> "UPI")
    @@ ("phonepe" :> "UPI")
    @@ ("paytm" :> "UPI")
    @@ ("credit card" :> "Card")
    @@ ("debit card" :> "Card")
    @@ ("card" :> "Card")
    @@ ("net banking" :> "Net Banking")
    @@ ("netbanking" :> "Net Banking")
    @@ ("prepaid" :> "Prepaid")
    @@ ("online" :> "Prepaid")
    @@ ("wallet" :> "Prepaid")

standardize_status(status) ==
    IF status = NULL THEN "Unknown"
    ELSE LET status_lower == strip[lower[status]]
         IN IF status_lower \in DOMAIN STATUS_MAP THEN STATUS_MAP[status_lower]
            ELSE title[status]

standardize_payment(payment) ==
    IF payment = NULL THEN "Unknown"
    ELSE LET payment_lower == strip[lower[payment]]
         IN IF payment_lower \in DOMAIN PAYMENT_MAP THEN PAYMENT_MAP[payment_lower]
            ELSE title[payment]

----------------------------------------------------------------------------
(* What the claims about a session speak of *)

\* The rows of the stored orders whose status cell is canonically in S
CanonicalRows(S) ==
    IF ValidCol(Orders, OrderMappings["order_status"])
    THEN {i \in 1..Length(Orders) :
            standardize_status(Orders.rows[i][OrderMappings["order_status"]]) \in S}
    ELSE {}

\* C4: every revenue figure of the chat pipeline (get_revenue_analysis,
\* get_summary, get_orders_analysis and each row of the breakdown table of
\* execute_data_query) is the sum of the amounts of the rows whose canonical
\* status is Delivered; rows that are canonically Processing, Shipped, RTO or
\* Cancelled, 'Undelivered' among them, contribute nothing.
C4_ChatRevenueOnlyDelivered ==
    (/\ result.op \in {"get_revenue_analysis", "get_summary", "get_orders_analysis",
                       "execute_data_query"}
     /\ result.ok /\ result.has_revenue
     /\ ValidCol(Orders, OrderMappings["order_status"]))
    => LET col == OrderMappings["total_amount"]
           D == CanonicalRows({"Delivered"})
       IN IF result.op = "execute_data_query"
          THEN \A k \in 1..Len(result.table) :
                  result.table[k].revenue =
                     AmountOver(Orders, col,
                        {i \in D : Orders.rows[i][result.dim_col] = result.table[k].key})
          ELSE result.revenue = AmountOver(Orders, col, D)

\* C5: in the chat pipeline no row has both helper flags _is_delivered and
\* _is_rto, and get_rto_analysis reports rto_base as the number of rows whose
\* canonical status is Delivered or RTO and the rate as 100 times the number
\* of canonical RTO rows over that number, 0 when that number is 0.
C5_RtoBaseIsShippedSet ==
    LET df == get_orders_with_helpers(Orders, OrderMappings)
        shipped_set == CanonicalRows({"Delivered", "RTO"})
        rto_set == CanonicalRows({"RTO"})
    IN /\ "_is_rto" \in Cols(df)
          => \A i \in 1..Length(df) : ~(df.rows[i]._is_delivered /\ df.rows[i]._is_rto)
       /\ (result.op = "get_rto_analysis" /\ result.ok)
          => /\ result.rto_base = Cardinality(shipped_set)
             /\ ~result.rto_rate.na
             /\ IF shipped_set = {} THEN result.rto_rate.num = 0
                ELSE result.rto_rate.num * Cardinality(shipped_set)
                        = 100 * Cardinality(rto_set) * result.rto_rate.den

\* C6: cod_vs_prepaid puts every order in exactly one of COD and Prepaid, so
\* the two total_orders add up to the number of orders; orders whose payment
\* reads 'COD' or 'Cash' are counted in COD and orders whose payment reads
\* 'GPay' or 'PhonePe' are counted in Prepaid.
C6_CodPrepaidPartition ==
    (result.op = "cod_vs_prepaid" /\ result.ok)
    => LET payment_col == OrderMappings["payment_method"]
           cash == {i \in 1..Length(Orders) :
                      standardize_payment(Orders.rows[i][payment_col]) = "COD"}
       IN /\ result.COD.total_orders + result.Prepaid.total_orders = Length(Orders)
          /\ result.COD.total_orders = Cardinality(cash)
          /\ result.Prepaid.total_orders = Length(Orders) - Cardinality(cash)

----------------------------------------------------------------------------
(* Breakdowns and top-N tables *)

Valid(df, col) == Truthy(col) /\ col \in Cols(df)

\* for col in df.columns: if <test>: found = col; break
FirstColumn(df, Test(_)) ==
    LET hits == {k \in 1..Len(df.columns) : Test(df.columns[k])}
    IN IF hits = {} THEN None
       ELSE df.columns[CHOOSE k \in hits : \A j \in hits : k <= j]

\* pd.to_numeric(df[col], errors='coerce').notna().sum(): the text columns
\* of the model hold no number
numeric_count(df, col) == IF col = "amount" THEN CountRows(df.rows, col) ELSE 0

\* The amount column: the mapped one, else the first column with a pattern
\* in its name and a number in it
detect_amount(df, amount_col, HasPattern(_)) ==
    IF Valid(df, amount_col) THEN amount_col
    ELSE LET found == FirstColumn(df, LAMBDA c : HasPattern(c) /\ numeric_count(df, c) > 0)
         IN IF Truthy(found) THEN found ELSE amount_col

\* _find_best_display_column: the patterns in priority order, each tried on
\* every column; then the id column as a last resort
RECURSIVE find_display(_, _, _, _)
find_display(df, name_patterns, exclude_patterns, k) ==
    IF k > Len(name_patterns) THEN None
    ELSE LET pattern == name_patterns[k][1]
             exact == name_patterns[k][2]
             found == FirstColumn(df, LAMBDA c :
                         IF exact THEN normalize(c) = replace_underscore[pattern]
                         ELSE pattern \in Words(c) /\ Words(c) \cap exclude_patterns = {})
         IN IF Truthy(found) THEN found
            ELSE find_display(df, name_patterns, exclude_patterns, k + 1)

_find_best_display_column(df, entity_type) ==
    LET found ==
          IF entity_type = "product"
          THEN find_display(df,
                  <<<<"product_name", TRUE>>, <<"product name", TRUE>>,
                    <<"lineitem_name", TRUE>>, <<"item_name", TRUE>>,
                    <<"product_title", TRUE>>, <<"product", FALSE>>,
                    <<"item", FALSE>>, <<"sku", FALSE>>>>,
                  {"customer", "id", "quantity", "price", "amount"}, 1)
          ELSE find_display(df,
                  <<<<"customer_name", TRUE>>, <<"customer name", TRUE>>,
                    <<"buyer_name", TRUE>>, <<"full_name", TRUE>>,
                    <<"name", FALSE>>, <<"customer", FALSE>>>>,
                  {"product", "id", "email", "phone", "address"}, 1)
    IN IF Truthy(found) THEN found
       ELSE FirstColumn(df, LAMBDA c :
               Words(c) \cap (IF entity_type = "product"
                              THEN {"product_id", "product id"}
                              ELSE {"customer_id", "customer id"}) # {})

\* df[df['_is_delivered']], or df when that is empty or there is no flag
delivered_or_all(df) ==
    IF "_is_delivered" \in Cols(df)
    THEN LET delivered == Where(df, LAMBDA r : r._is_delivered)
         IN IF Length(delivered) = 0 THEN df ELSE delivered
    ELSE df

\* pd.to_numeric(delivered[amount_col], errors='coerce').fillna(0)
fill_zero(rs, amount_col) ==
    [i \in 1..Len(rs) |-> [rs[i] EXCEPT ![amount_col] = IF @.na THEN Num(0) ELSE @]]

\* (part / total * 100).round(1) in tenths of a percent; 0 / 0 is NaN
NaNPercent == [na |-> TRUE, tenths |-> 0]
percent(part, total) ==
    IF total = 0 THEN NaNPercent
    ELSE [na |-> FALSE, tenths |-> (2 * part * 1000 + total) \div (2 * total)]

RECURSIVE SumSeq(_, _)
SumSeq(table, column) ==
    IF table = <<>> THEN 0 ELSE Head(table)[column] + SumSeq(Tail(table), column)

\* table['%'] = (table[column] / table[column].sum() * 100).round(1)
with_percent(table, column) ==
    [k \in 1..Len(table) |->
        [pct |-> percent(table[k][column], SumSeq(table, column))] @@ table[k]]

Table(name, by, rows) == [op |-> name, ok |-> TRUE, by |-> by, table |-> rows]


\* DataAnalyzer.get_breakdown_analysis for the question 'breakdown by city'
get_breakdown_analysis(store, mappings, n) ==
    LET order_mappings == mappings.orders
        df == get_orders_with_helpers(store.orders, order_mappings)
        amount_col == detect_amount(df, order_mappings["total_amount"],
                         LAMBDA c : Words(c) \cap {"amount", "total", "price", "revenue",
                                                   "value", "subtotal"} # {})
        mapped_col == get(order_mappings, "city")
        dimension_col ==
            IF Valid(df, mapped_col) THEN mapped_col
            ELSE FirstColumn(df, LAMBDA c :
                    Words(c) \cap {"city", "location", "shipping_city", "billing_city",
                                   "town"} # {})
        delivered == delivered_or_all(df)
    IN IF ~has_data(store)
       THEN Message("get_breakdown_analysis", "no orders data")
       ELSE IF ~Valid(df, dimension_col)
       THEN Message("get_breakdown_analysis", "Could Not Determine Breakdown Dimension")
       ELSE IF Valid(df, amount_col)
       THEN Table("get_breakdown_analysis", "revenue",
               with_percent(
                  head(sort_values(groupby_agg(fill_zero(delivered.rows, amount_col),
                                               dimension_col, amount_col), "revenue"), n),
                  "revenue"))
       ELSE Table("get_breakdown_analysis", "orders",
               with_percent(
                  head(sort_values(value_counts(delivered.rows, dimension_col), "orders"), n),
                  "orders"))

\* ', '.join(df.columns.tolist()[:20]) of the 'Product Column Not Found' message
ListedColumns == 20

\* get_top_products without the test for a product column: groupby(None)
get_top_products_unguarded(store, mappings, n) ==
    LET order_mappings == mappings.orders
        df == get_orders_with_helpers(store.orders, order_mappings)
        mapped_col == order_mappings["product_name"]
        best == IF Valid(df, mapped_col) THEN mapped_col
                ELSE _find_best_display_column(df, "product")
        product_col ==
            IF Valid(df, best) THEN best
            ELSE LET id == FirstColumn(df, LAMBDA c :
                              "product_id" \in Words(c) \/ lower[c] = "product")
                 IN IF Truthy(id) THEN id ELSE best
        amount_col == detect_amount(df, order_mappings["total_amount"],
                         LAMBDA c : normalize(c) \in
                            {replace_underscore[p] :
                               p \in {"total_amount", "total amount", "amount", "total",
                                      "grand_total", "subtotal", "total_price",
                                      "order_value", "revenue", "price"}})
        delivered == delivered_or_all(df)
    IN IF ~has_data(store)
       THEN Message("get_top_products", "no orders data")
       ELSE IF ~Valid(df, product_col)
       THEN [op |-> "get_top_products", ok |-> FALSE, content |-> "KeyError",
             columns |-> <<>>]
       ELSE IF Valid(df, amount_col)
       THEN Table("get_top_products", "revenue",
               nlargest(groupby_agg(fill_zero(delivered.rows, amount_col),
                                    product_col, amount_col), n, "revenue"))
       ELSE Table("get_top_products", "orders",
               head(sort_values(value_counts(delivered.rows, product_col), "orders"), n))

\* DataAnalyzer.get_top_products, the branch that answers from the orders
get_top_products(store, mappings, n) ==
    LET order_mappings == mappings.orders
        df == get_orders_with_helpers(store.orders, order_mappings)
        mapped_col == order_mappings["product_name"]
        best == IF Valid(df, mapped_col) THEN mapped_col
                ELSE _find_best_display_column(df, "product")
        product_col ==
            IF Valid(df, best) THEN best
            ELSE LET id == FirstColumn(df, LAMBDA c :
                              "product_id" \in Words(c) \/ lower[c] = "product")
                 IN IF Truthy(id) THEN id ELSE best
        amount_col == detect_amount(df, order_mappings["total_amount"],
                         LAMBDA c : normalize(c) \in
                            {replace_underscore[p] :
                               p \in {"total_amount", "total amount", "amount", "total",
                                      "grand_total", "subtotal", "total_price",
                                      "order_value", "revenue", "price"}})
        delivered == delivered_or_all(df)
    IN IF ~has_data(store)
       THEN Message("get_top_products", "no orders data")
       ELSE IF ~Valid(df, product_col)
       THEN [columns |-> head(df.columns, ListedColumns)]
            @@ Message("get_top_products", "Product Column Not Found")
       ELSE IF Valid(df, amount_col)
       THEN Table("get_top_products", "revenue",
               nlargest(groupby_agg(fill_zero(delivered.rows, amount_col),
                                    product_col, amount_col), n, "revenue"))
       ELSE Table("get_top_products", "orders",
               head(sort_values(value_counts(delivered.rows, product_col), "orders"), n))

\* DataAnalyzer.get_top_customers without a customers dataset: from the orders
get_top_customers(store, mappings, n) ==
    LET order_mappings == mappings.orders
        df == get_orders_with_helpers(store.orders, order_mappings)
        mapped_col == order_mappings["customer_name"]
        best == IF Valid(df, mapped_col) THEN mapped_col
                ELSE _find_best_display_column(df, "customer")
        name_col ==
            IF Valid(df, best) THEN best
            ELSE LET id == FirstColumn(df, LAMBDA c : "customer_id" \in Words(c))
                 IN IF Truthy(id) THEN id ELSE best
        amount_col == order_mappings["total_amount"]
        delivered == helper_delivered(df)
    IN IF ~has_data(store) \/ ~(Valid(df, name_col) /\ Truthy(amount_col))
       THEN Message("get_top_customers", "No customer data available")
       ELSE IF amount_col \notin Cols(df)
       THEN [op |-> "get_top_customers", ok |-> FALSE, content |-> "KeyError"]
       ELSE Table("get_top_customers", "revenue",
               nlargest(groupby_agg(delivered.rows, name_col, amount_col), n, "revenue"))

\* nlargest(15, 'Revenue') and value_counts().head(15) of get_city_analysis
CityRows == 15

\* DataAnalyzer.get_city_analysis
get_city_analysis(store, mappings, n) ==
    LET order_mappings == mappings.orders
        df == get_orders_with_helpers(store.orders, order_mappings)
        mapped_col == order_mappings["city"]
        city_col ==
            IF Valid(df, mapped_col) THEN mapped_col
            ELSE LET found == FirstColumn(df, LAMBDA c :
                                 Words(c) \cap {"city", "location", "shipping_city",
                                                "billing_city", "customer_city", "town"} # {})
                 IN IF Truthy(found) THEN found ELSE mapped_col
        amount_col == detect_amount(df, order_mappings["total_amount"],
                         LAMBDA c : Words(c) \cap {"amount", "total", "price", "revenue",
                                                   "value", "subtotal", "total_price"} # {})
        delivered == delivered_or_all(df)
    IN IF ~has_data(store)
       THEN Message("get_city_analysis", "no orders data")
       ELSE IF ~Valid(df, city_col)
       THEN Message("get_city_analysis", "City Analysis Not Available")
       ELSE IF Valid(df, amount_col)
       THEN Table("get_city_analysis", "revenue",
               with_percent(
                  nlargest(groupby_agg(fill_zero(delivered.rows, amount_col),
                                       city_col, amount_col), CityRows, "revenue"),
                  "revenue"))
       ELSE Table("get_city_analysis", "orders",
               head(sort_values(value_counts(delivered.rows, city_col), "orders"), CityRows))


\* AnalyticsEngine.top_products, top_customers and city_breakdown: the same
\* steps on the column of one field
engine_top(name, df, mappings, dim_col, n) ==
    LET amount_col == _col(mappings, "total_amount")
        delivered == _delivered(df, mappings)
    IN IF ~Truthy(dim_col) \/ ~Truthy(amount_col)
       THEN Table(name, "revenue", <<>>)
       ELSE IF Length(delivered) = 0
       THEN Table(name, "revenue", <<>>)
       ELSE IF dim_col \notin Cols(df) \/ amount_col \notin Cols(df)
       THEN [op |-> name, ok |-> FALSE, content |-> "KeyError"]
       ELSE Table(name, "revenue",
               head(sort_values(groupby_agg(delivered.rows, dim_col, amount_col),
                                "revenue"), n))

top_products(df, mappings, n) ==
    engine_top("top_products", df, mappings, _col(mappings, "product_name"), n)

top_customers(df, mappings, n) ==
    engine_top("top_customers", df, mappings,
               IF Truthy(_col(mappings, "customer_name"))
               THEN _col(mappings, "customer_name")
               ELSE get(mappings, "customer_email"), n)

city_breakdown(df, mappings, n) ==
    engine_top("city_breakdown", df, mappings, _col(mappings, "city"), n)

----------------------------------------------------------------------------
(* Top-N questions over every small stored orders dataset *)

MaxTopRows == 3
MaxGroups == 2
MaxTopAmount == 1

Cities == <<"c1", "c2", "c3", "c4">>
Products == <<"p1", "p2", "p3", "p4">>
Customers == <<"u1", "u2", "u3", "u4">>

\* An order of group g: its city, product and customer are the g-th ones
TopRow(s, g, a) ==
    [order_id |-> "o1", status |-> s, payment |-> "COD", amount |-> a,
     product |-> Products[g], city |-> Cities[g], customer |-> Customers[g]]

TopRows ==
    {TopRow(s, g, a) : s \in {"Delivered", "RTO"}, g \in 1..MaxGroups,
                       a \in {NaN} \cup {Num(n) : n \in 0..MaxTopAmount}}

\* The limits a question can carry: the number in it, 10 without one
Limits == {0, 1, 10}

TopInit ==
    /\ \E rs \in SeqsUpTo(TopRows, MaxTopRows) :
         /\ data_store = [orders |-> Frame(OrderColumns, rs)]
         /\ \E on_onboarding \in BOOLEAN :
               column_mappings =
                  [orders |-> IF on_onboarding
                              THEN auto_map_columns_for_type(Frame(OrderColumns, rs))
                              ELSE auto_map_columns(Frame(OrderColumns, rs))]
    /\ user_mappings = NoMappings
    /\ limit \in Limits
    /\ session_state = NoKeys
    /\ result = NoResult

GetBreakdownAnalysis ==
    result' = get_breakdown_analysis(data_store, column_mappings, limit) /\ Unchanged

GetTopProducts ==
    result' = get_top_products(data_store, column_mappings, limit) /\ Unchanged

GetTopCustomers ==
    result' = get_top_customers(data_store, column_mappings, limit) /\ Unchanged

GetCityAnalysis ==
    result' = get_city_analysis(data_store, column_mappings, limit) /\ Unchanged

TopProducts ==
    result' = top_products(data_store.orders, column_mappings.orders, limit) /\ Unchanged

TopCustomers ==
    result' = top_customers(data_store.orders, column_mappings.orders, limit) /\ Unchanged

CityBreakdown ==
    result' = city_breakdown(data_store.orders, column_mappings.orders, limit) /\ Unchanged

TopNext ==
    \/ GetBreakdownAnalysis
    \/ GetTopProducts
    \/ GetTopCustomers
    \/ GetCityAnalysis
    \/ TopProducts
    \/ TopCustomers
    \/ CityBreakdown

SpecTopN == TopInit /\ [][TopNext]_vars

----------------------------------------------------------------------------
(* What the claims about top-N tables speak of *)

TopOps == {"get_breakdown_analysis", "get_top_products", "get_top_customers",
           "get_city_analysis", "top_products", "top_customers", "city_breakdown"}

\* The logical field an operation groups by
DimensionField(op) ==
    CASE op \in {"get_breakdown_analysis", "get_city_analysis", "city_breakdown"} -> "city"
      [] op \in {"get_top_products", "top_products"} -> "product_name"
      [] op \in {"get_top_customers", "top_customers"} -> "customer_name"

\* The rows a table is to be made of: the Delivered ones, all without one
BaseRows ==
    IF CanonicalRows({"Delivered"}) = {} THEN 1..Length(Orders)
    ELSE CanonicalRows({"Delivered"})

\* The summed amount of the rows in I whose cell in column dim reads key
GroupAmount(I, dim, key) ==
    AmountOver(Orders, OrderMappings["total_amount"],
               {i \in I : Orders.rows[i][dim] = key})

GroupsOf(I, dim) == {Orders.rows[i][dim] : i \in I}

TableKeys == {result.table[k].key : k \in 1..Len(result.table)}

\* A top-N operation has answered about orders whose status, amount and
\* dimension are mapped to columns of the dataset
TopAnswered ==
    /\ result.op \in TopOps
    /\ Length(Orders) > 0
    /\ ValidCol(Orders, OrderMappings["order_status"])
    /\ ValidCol(Orders, OrderMappings["total_amount"])
    /\ ValidCol(Orders, OrderMappings[DimensionField(result.op)])

\* C7: every breakdown and top-N operation groups the Delivered rows when
\* there is one and all rows when there is none: with a limit above 0 its
\* table is not empty, and each row of the table is a group of those rows
\* with the sum of its amounts.
C7_FallbackToAllRows ==
    (TopAnswered /\ limit > 0)
    => /\ result.ok
       /\ Len(result.table) > 0
       /\ LET dim == OrderMappings[DimensionField(result.op)]
          IN \A k \in 1..Len(result.table) :
                /\ result.table[k].key \in GroupsOf(BaseRows, dim)
                /\ result.table[k].revenue = GroupAmount(BaseRows, dim, result.table[k].key)


\* C8: a top-N table with requested limit N has at most N rows, its rows are
\* in non-increasing order of summed amount, and no group left out of it has
\* a larger summed amount than a group in it.
C8_TopNIsLargestN ==
    (/\ TopAnswered
     /\ result.op \in {"get_breakdown_analysis", "get_top_products", "get_top_customers",
                       "get_city_analysis", "top_products"}
     /\ result.ok)
    => LET dim == OrderMappings[DimensionField(result.op)]
           I == IF result.op = "get_top_customers" \/ result.op = "top_products"
                THEN CanonicalRows({"Delivered"}) ELSE BaseRows
       IN /\ Len(result.table) <= limit
          /\ \A k \in 1..(Len(result.table) - 1) :
                result.table[k].revenue >= result.table[k + 1].revenue
          /\ \A key \in GroupsOf(I, dim) \ TableKeys :
                \A k \in 1..Len(result.table) :
                   GroupAmount(I, dim, key) <= result.table[k].revenue


RECURSIVE SumTenths(_)
SumTenths(table) ==
    IF table = <<>> THEN 0 ELSE Head(table).pct.tenths + SumTenths(Tail(table))

\* C9: in get_breakdown_analysis the '% of Revenue' of each returned group is
\* its summed amount over the sum of the returned rows, rounded to one
\* decimal, and whenever the table has a row the percentages are numbers that
\* add up to 100 within the rounding of each row, also when every grouped
\* amount is zero or missing.
C9_PercentOfReturnedRows ==
    (/\ TopAnswered
     /\ result.op = "get_breakdown_analysis"
     /\ result.ok
     /\ Len(result.table) > 0)
    => LET total == SumSeq(result.table, "revenue")
       IN /\ \A k \in 1..Len(result.table) :
                /\ ~result.table[k].pct.na
                /\ 2 * total * result.table[k].pct.tenths
                      <= 2000 * result.table[k].revenue + total
                /\ 2 * total * result.table[k].pct.tenths
                      >= 2000 * result.table[k].revenue - total
          /\ SumTenths(result.table) >= 1000 - Len(result.table)
          /\ SumTenths(result.table) <= 1000 + Len(result.table)

----------------------------------------------------------------------------
(* Column mappings over a session of imports and manual choices *)

\* The fields of the 'Column Mapping' editor of the Data Manager
mapping_fields == {"product_name", "customer_name", "total_amount", "order_status",
                  "city", "payment_method"}

\* What the user picks in the editor: a field and one of the dataset's columns
Selections == {<<"product_name", "product">>, <<"product_name", "city">>,
               <<"city", "city">>, <<"city", "product">>}

\* 'Save Column Mappings' after the user has set one select box: the other
\* boxes show the current mapping, or '(Not Mapped)' when it names no column
SaveColumnMappings(field, selected) ==
    LET df == data_store.orders
        mappings == column_mappings.orders
        shown(f) == IF f = field THEN selected
                    ELSE IF mappings[f] \in Cols(df) THEN mappings[f] ELSE None
        updated_mappings == [f \in Fields |-> IF f \in mapping_fields THEN shown(f) ELSE None]
    IN /\ Length(df) > 0
       /\ selected \in Cols(df)
       /\ column_mappings' = [column_mappings EXCEPT !.orders = updated_mappings]
       /\ user_mappings' = [user_mappings EXCEPT ![field] = selected]
       /\ result' = NoResult
       /\ UNCHANGED <<data_store, limit, session_state>>

\* The files of the session: one delivered order each
MappingFiles ==
    {Frame(OrderColumns, <<FileRow(id, "delivered ", "COD", Num(1))>>) : id \in {"o1", "o2"}}

MappingNext ==
    \/ \E file \in MappingFiles, manual_mapping \in ManualChoices :
          OnboardingImport(file, manual_mapping)
    \/ \E file \in MappingFiles, clean_on_import \in BOOLEAN, merge_existing \in BOOLEAN :
          DataManagerImport(file, clean_on_import, merge_existing)
    \/ \E s \in Selections : SaveColumnMappings(s[1], s[2])

SpecMapping == SessionInit /\ [][MappingNext]_vars

\* C10: after any imports and manual mapping choices, every field the user
\* has explicitly mapped is still mapped to the column the user chose last.
C10_UserMappingKept ==
    \A f \in Fields :
        user_mappings[f] # None => column_mappings.orders[f] = user_mappings[f]

----------------------------------------------------------------------------
(* The dimension of a breakdown *)

\* The intents of dimension_patterns that the orders of the model can answer
BreakdownIntents == {"city", "products", "payment", "status", "customers"}

\* intent_key.rstrip('s')
rstrip_s(intent_key) ==
    CASE intent_key = "city" -> "city"
      [] intent_key = "products" -> "product"
      [] intent_key = "payment" -> "payment"
      [] intent_key = "status" -> "statu"
      [] intent_key = "customers" -> "customer"

\* dimension_patterns[intent_key]: the patterns and the entity to enrich
dimension_patterns(intent_key) ==
    CASE intent_key = "city" ->
           [patterns |-> {"city", "location", "shipping_city", "billing_city", "town"},
            enrich_type |-> None]
      [] intent_key = "products" ->
           [patterns |-> {"product", "item", "sku", "product_name", "item_name",
                          "lineitem_name"},
            enrich_type |-> "product"]
      [] intent_key = "payment" ->
           [patterns |-> {"payment", "payment_method", "pay_method", "gateway"},
            enrich_type |-> None]
      [] intent_key = "status" ->
           [patterns |-> {"status", "order_status", "fulfillment", "delivery_status"},
            enrich_type |-> None]
      [] intent_key = "customers" ->
           [patterns |-> {"customer", "customer_name", "buyer", "client"},
            enrich_type |-> "customer"]

\* The columns that the question 'breakdown by <intent_key>' names: those
\* whose name is in the question or has a word of the question in it
QueryColumns(intent_key) ==
    CASE intent_key = "city" -> {"city"}
      [] intent_key = "products" -> {"product"}
      [] intent_key = "payment" -> {"payment"}
      [] intent_key = "status" -> {"status", "_status"}
      [] intent_key = "customers" -> {"customer"}

\* The dimension column of get_breakdown_analysis: the mapping looked up under
\* the intent's own name, then the display column, the patterns, the question
breakdown_dimension(df, order_mappings, intent_key) ==
    LET first == get(order_mappings, intent_key)
        mapped_col == IF Truthy(first) THEN first
                      ELSE get(order_mappings, rstrip_s(intent_key))
        entry == dimension_patterns(intent_key)
        best == IF Truthy(entry.enrich_type)
                THEN _find_best_display_column(df, entry.enrich_type)
                ELSE None
        by_pattern == IF Truthy(best) THEN best
                      ELSE FirstColumn(df, LAMBDA c : Words(c) \cap entry.patterns # {})
        dimension_col == IF Valid(df, mapped_col) THEN mapped_col ELSE by_pattern
    IN IF Truthy(dimension_col) THEN dimension_col
       ELSE FirstColumn(df, LAMBDA c : c \in QueryColumns(intent_key))

\* DataAnalyzer.get_breakdown_analysis for the question 'breakdown by <intent_key>'
get_breakdown_by(store, mappings, intent_key, n) ==
    LET order_mappings == mappings.orders
        df == get_orders_with_helpers(store.orders, order_mappings)
        amount_col == detect_amount(df, order_mappings["total_amount"],
                         LAMBDA c : Words(c) \cap {"amount", "total", "price", "revenue",
                                                   "value", "subtotal"} # {})
        dimension_col == breakdown_dimension(df, order_mappings, intent_key)
        delivered == delivered_or_all(df)
        answer ==
           IF ~has_data(store)
           THEN Message("get_breakdown_by", "no orders data")
           ELSE IF ~Valid(df, dimension_col)
           THEN Message("get_breakdown_by", "Could Not Determine Breakdown Dimension")
           ELSE IF Valid(df, amount_col)
           THEN Table("get_breakdown_by", "revenue",
                   with_percent(
                      head(sort_values(groupby_agg(fill_zero(delivered.rows, amount_col),
                                                   dimension_col, amount_col), "revenue"), n),
                      "revenue"))
           ELSE Table("get_breakdown_by", "orders",
                   with_percent(
                      head(sort_values(value_counts(delivered.rows, dimension_col), "orders"), n),
                      "orders"))
    IN [intent |-> intent_key] @@ answer

MaxBreakdownRows == 2

\* The field whose mapping names the column of an intent's dimension
IntentField(intent_key) ==
    CASE intent_key = "city" -> "city"
      [] intent_key = "products" -> "product_name"
      [] intent_key = "payment" -> "payment_method"
      [] intent_key = "status" -> "order_status"
      [] intent_key = "customers" -> "customer_name"

\* The columns a user can choose as a dimension
DimensionColumns == {"product", "city", "customer"}

\* A session with imported orders whose mapping is the auto-detected one,
\* or that one with one field set by the user to a column of the dataset
BreakdownInit ==
    /\ \E rs \in SeqsUpTo(TopRows, MaxBreakdownRows) :
         /\ data_store = [orders |-> Frame(OrderColumns, rs)]
         /\ \E on_onboarding \in BOOLEAN, chosen \in BOOLEAN,
               f \in {IntentField(k) : k \in BreakdownIntents}, c \in DimensionColumns :
               LET auto == IF on_onboarding
                           THEN auto_map_columns_for_type(Frame(OrderColumns, rs))
                           ELSE auto_map_columns(Frame(OrderColumns, rs))
               IN /\ column_mappings =
                       [orders |-> IF chosen THEN [auto EXCEPT ![f] = c] ELSE auto]
                  /\ user_mappings =
                       IF chosen THEN [NoMappings EXCEPT ![f] = c] ELSE NoMappings
    /\ limit = 10
    /\ session_state = NoKeys
    /\ result = NoResult

GetBreakdownBy(intent_key) ==
    result' = get_breakdown_by(data_store, column_mappings, intent_key, limit) /\ Unchanged

BreakdownNext == \E intent_key \in BreakdownIntents : GetBreakdownBy(intent_key)

SpecBreakdown == BreakdownInit /\ [][BreakdownNext]_vars

\* The values in a column of the stored orders
ColumnValues(col) == {Orders.rows[i][col] : i \in 1..Length(Orders)}

\* C11: when the stored mapping of the field of the requested dimension names
\* a column of the orders, the breakdown is a table whose groups are values
\* of that column.
C11_MappedColumnWins ==
    (/\ result.op = "get_breakdown_by"
     /\ Length(Orders) > 0
     /\ ValidCol(Orders, OrderMappings[IntentField(result.intent)]))
    => /\ result.ok
       /\ Len(result.table) > 0
       /\ TableKeys \subseteq ColumnValues(OrderMappings[IntentField(result.intent)])

----------------------------------------------------------------------------
(* Mappings that name a column the dataset does not have *)

\* AnalyticsEngine.payment_breakdown
payment_breakdown(df, mappings) ==
    LET payment_col == _col(mappings, "payment_method")
        amount_col == _col(mappings, "total_amount")
        delivered == _delivered(df, mappings)
    IN IF ~Truthy(payment_col) \/ ~Truthy(amount_col)
       THEN Table("payment_breakdown", "revenue", <<>>)
       ELSE IF Length(delivered) = 0
       THEN Table("payment_breakdown", "revenue", <<>>)
       ELSE IF payment_col \notin Cols(df) \/ amount_col \notin Cols(df)
       THEN [op |-> "payment_breakdown", ok |-> FALSE, content |-> "KeyError"]
       ELSE Table("payment_breakdown", "revenue",
               sort_values(groupby_agg(delivered.rows, payment_col, amount_col), "revenue"))

MaxStaleRows == 2

\* The fields whose mapping the operations below read, each with the column
\* it names in a file of the model
StaleFields ==
    [payment_method |-> "payment", total_amount |-> "amount", order_status |-> "status",
     product_name |-> "product", customer_name |-> "customer"]

\* A mapping of the orders: each field unmapped, mapped to its column, or
\* mapped to a column that the stored dataset has not got
StaleMappings ==
    {[f \in Fields |-> IF f \in DOMAIN StaleFields
                       THEN (IF choice[f] = "stale" THEN "gone"
                             ELSE IF choice[f] = "mapped" THEN StaleFields[f] ELSE None)
                       ELSE None] :
        choice \in [DOMAIN StaleFields -> {"unmapped", "mapped", "stale"}]}

StaleInit ==
    /\ \E rs \in SeqsUpTo(TopRows, MaxStaleRows) \ {<<>>} :
         data_store = [orders |-> Frame(OrderColumns, rs)]
    /\ \E m \in StaleMappings : column_mappings = [orders |-> m]
    /\ user_mappings = NoMappings
    /\ limit = 10
    /\ session_state = NoKeys
    /\ result = NoResult

PaymentBreakdown ==
    result' = payment_breakdown(data_store.orders, column_mappings.orders) /\ Unchanged

StaleNext ==
    \/ PaymentBreakdown
    \/ TopProducts
    \/ TopCustomers
    \/ CodVsPrepaid
    \/ GetTopCustomers

SpecStale == StaleInit /\ [][StaleNext]_vars

\* The mapping with every entry that names no column of df taken out
Unmapped(df, mappings) ==
    [f \in Fields |-> IF mappings[f] \in Cols(df) THEN mappings[f] ELSE None]

\* What the operation named op returns for the stored orders under mappings m
AnswerUnder(op, m) ==
    CASE op = "payment_breakdown" -> payment_breakdown(Orders, m)
      [] op = "top_products" -> top_products(Orders, m, limit)
      [] op = "top_customers" -> top_customers(Orders, m, limit)
      [] op = "cod_vs_prepaid" -> cod_vs_prepaid(Orders, m)
      [] op = "get_top_customers" -> get_top_customers(data_store, [orders |-> m], limit)

StaleOps == {"payment_breakdown", "top_products", "top_customers", "cod_vs_prepaid",
             "get_top_customers"}

\* C12: an operation run under a mapping with entries that name no column of
\* the dataset returns what it returns when those entries are absent, and
\* in particular does not fail with a KeyError.
C12_StaleMappingIsUnmapped ==
    result.op \in StaleOps
    => result = AnswerUnder(result.op, Unmapped(Orders, OrderMappings))

----------------------------------------------------------------------------
(* Questions: DataAnalyzer.analyze_query and process_query *)

\* The intents of analyze_query, in the order of its table
Intents ==
    <<"revenue", "orders", "rto", "cod", "prepaid", "products",
      "customers", "inventory", "payment", "status", "city", "state",
      "category", "trend", "compare", "top", "bottom", "average",
      "summary", "breakdown", "ads", "meta_ads", "google_ads", "spend",
      "roas", "ctr", "cpc", "cpa", "impressions", "conversions">>

\* The intents that send a question to the ads handler
AdsIntents ==
    {"ads", "meta_ads", "google_ads", "spend", "roas", "ctr", "cpc", "cpa",
     "impressions", "conversions"}

\* The chain with 'breakdown' tested before the ads intents
route_breakdown_first(intents) ==
    IF intents = {} THEN "general_response"
    ELSE IF "breakdown" \in intents THEN "get_breakdown_analysis"
    ELSE IF AdsIntents \cap intents # {} THEN "get_ads_analysis"
    ELSE IF "summary" \in intents THEN "get_summary"
    ELSE IF "revenue" \in intents /\ "trend" \in intents THEN "get_revenue_trend"
    ELSE IF "revenue" \in intents /\ "city" \in intents THEN "get_breakdown_analysis"
    ELSE IF "revenue" \in intents THEN "get_revenue_analysis"
    ELSE IF "rto" \in intents THEN "get_rto_analysis"
    ELSE IF "cod" \in intents \/ "prepaid" \in intents THEN "get_payment_analysis"
    ELSE IF "products" \in intents /\ ("top" \in intents \/ "best" \in intents)
         THEN "get_top_products"
    ELSE IF "products" \in intents THEN "get_product_analysis"
    ELSE IF "customers" \in intents /\ "top" \in intents THEN "get_top_customers"
    ELSE IF "customers" \in intents THEN "get_customer_analysis"
    ELSE IF "inventory" \in intents THEN "get_inventory_analysis"
    ELSE IF "city" \in intents THEN "get_city_analysis"
    ELSE IF "state" \in intents THEN "get_state_analysis"
    ELSE IF "category" \in intents THEN "get_category_analysis"
    ELSE IF "payment" \in intents THEN "get_payment_breakdown"
    ELSE IF "status" \in intents THEN "get_status_analysis"
    ELSE IF "trend" \in intents THEN "get_orders_trend"
    ELSE IF "orders" \in intents THEN "get_orders_analysis"
    ELSE "general_response"

\* The if/elif chain of process_query: the handler that answers a question
\* with the given intents
route(intents) ==
    IF intents = {} THEN "general_response"
    ELSE IF AdsIntents \cap intents # {} THEN "get_ads_analysis"
    ELSE IF "breakdown" \in intents THEN "get_breakdown_analysis"
    ELSE IF "summary" \in intents THEN "get_summary"
    ELSE IF "revenue" \in intents /\ "trend" \in intents THEN "get_revenue_trend"
    ELSE IF "revenue" \in intents /\ "city" \in intents THEN "get_breakdown_analysis"
    ELSE IF "revenue" \in intents THEN "get_revenue_analysis"
    ELSE IF "rto" \in intents THEN "get_rto_analysis"
    ELSE IF "cod" \in intents \/ "prepaid" \in intents THEN "get_payment_analysis"
    ELSE IF "products" \in intents /\ ("top" \in intents \/ "best" \in intents)
         THEN "get_top_products"
    ELSE IF "products" \in intents THEN "get_product_analysis"
    ELSE IF "customers" \in intents /\ "top" \in intents THEN "get_top_customers"
    ELSE IF "customers" \in intents THEN "get_customer_analysis"
    ELSE IF "inventory" \in intents THEN "get_inventory_analysis"
    ELSE IF "city" \in intents THEN "get_city_analysis"
    ELSE IF "state" \in intents THEN "get_state_analysis"
    ELSE IF "category" \in intents THEN "get_category_analysis"
    ELSE IF "payment" \in intents THEN "get_payment_breakdown"
    ELSE IF "status" \in intents THEN "get_status_analysis"
    ELSE IF "trend" \in intents THEN "get_orders_trend"
    ELSE IF "orders" \in intents THEN "get_orders_analysis"
    ELSE "general_response"

\* The questions put to the chat
Queries ==
    {"hello",
     "compare",
     "top 5 products",
     "top 1 customers",
     "show ads breakdown",
     "breakdown by city",
     "breakdown by products",
     "revenue trend",
     "total revenue",
     "rto rate",
     "summary",
     "orders",
     "city",
     "what is my ROAS",
     "best 5 products",
     "ad spend"}

\* analyze_query: the intents whose keywords occur in the lower-cased
\* question, and the first number in it (10 without one)
analyze_query ==
    [query \in Queries |->
        CASE query = "hello" ->
               [intents |-> {}, limit |-> 10, raw_query |-> query]
          [] query = "compare" ->
               [intents |-> {"compare"}, limit |-> 10, raw_query |-> query]
          [] query = "top 5 products" ->
               [intents |-> {"products", "top"}, limit |-> 5, raw_query |-> query]
          [] query = "top 1 customers" ->
               [intents |-> {"customers", "top"}, limit |-> 1, raw_query |-> query]
          [] query = "show ads breakdown" ->
               [intents |-> {"breakdown", "ads"}, limit |-> 10, raw_query |-> query]
          [] query = "breakdown by city" ->
               [intents |-> {"city", "breakdown"}, limit |-> 10, raw_query |-> query]
          [] query = "breakdown by products" ->
               [intents |-> {"products", "breakdown"}, limit |-> 10, raw_query |-> query]
          [] query = "revenue trend" ->
               [intents |-> {"revenue", "trend"}, limit |-> 10, raw_query |-> query]
          [] query = "total revenue" ->
               [intents |-> {"revenue"}, limit |-> 10, raw_query |-> query]
          [] query = "rto rate" ->
               [intents |-> {"rto"}, limit |-> 10, raw_query |-> query]
          [] query = "summary" ->
               [intents |-> {"summary"}, limit |-> 10, raw_query |-> query]
          [] query = "orders" ->
               [intents |-> {"orders"}, limit |-> 10, raw_query |-> query]
          [] query = "city" ->
               [intents |-> {"city"}, limit |-> 10, raw_query |-> query]
          [] query = "what is my ROAS" ->
               [intents |-> {"roas"}, limit |-> 10, raw_query |-> query]
          [] query = "best 5 products" ->
               [intents |-> {"products", "top"}, limit |-> 5, raw_query |-> query]
          [] query = "ad spend" ->
               [intents |-> {"ads", "spend"}, limit |-> 10, raw_query |-> query]
    ]

\* The keys of dimension_patterns in the order of the dict
DimensionOrder ==
    <<"city", "state", "category", "products", "payment", "status", "customers">>

\* for intent_key in dimension_patterns: if intent_key in intents: ...; break
first_dimension(intents) ==
    LET hits == {k \in 1..Len(DimensionOrder) : DimensionOrder[k] \in intents}
    IN IF hits = {} THEN None
       ELSE DimensionOrder[CHOOSE k \in hits : \A j \in hits : k <= j]

\* list(self.orders.columns)[:15] of general_response
ShownColumns == 15

\* general_response with the table of example questions whatever is loaded
general_response_examples(store) ==
    [op |-> "general_response", ok |-> TRUE, content |-> "Try These Questions",
     columns |-> head(store.orders.columns, ShownColumns),
     charts |-> <<>>, tables |-> <<>>]

\* DataAnalyzer.general_response: with a loaded dataset the table of example
\* questions and the first columns of the orders, the welcome text with the
\* steps of an upload otherwise
general_response(store) ==
    IF has_data(store)
    THEN [op |-> "general_response", ok |-> TRUE, content |-> "Try These Questions",
          columns |-> head(store.orders.columns, ShownColumns),
          charts |-> <<>>, tables |-> <<>>]
    ELSE [op |-> "general_response", ok |-> TRUE, content |-> "Upload Your Data",
          columns |-> <<>>, charts |-> <<>>, tables |-> <<>>]

\* st.session_state.data_store.get(dtype, pd.DataFrame())
dataset(store, data_type) ==
    IF data_type \in DOMAIN store THEN store[data_type] ELSE EmptyFrame

\* df[col].sum() if col in df.columns, 0 otherwise
sum_if_present(df, col) == IF col \in Cols(df) THEN SumRows(df.rows, col) ELSE 0

\* n / d * scale if d > 0 else 0
ratio_or_zero(n, d, scale) == IF d > 0 THEN Ratio(n * scale, d) ELSE Zero

\* float('inf'), the quotient of a positive number and a numpy zero
Infinity == [na |-> FALSE, num |-> 1, den |-> 0]

\* n / d on numpy numbers and on pandas columns: a zero divisor gives NaN
\* for 0 / 0 and infinity otherwise, with a warning and no exception
numpy_divide(n, d, scale) ==
    IF d # 0 THEN Ratio(n * scale, d) ELSE IF n = 0 THEN RatioNaN ELSE Infinity

\* DataAnalyzer.get_ads_analysis.  The sum of a column is a numpy number and
\* the total of no column the Python int 0; the quotient of two Python ints
\* raises ZeroDivisionError for a zero divisor
get_ads_analysis(store, analysis) ==
    LET intents == analysis.intents
        ads_meta == dataset(store, "ads_meta")
        ads_google == dataset(store, "ads_google")
        ads_shopify == dataset(store, "ads_shopify")
        has_meta == Length(ads_meta) > 0
        has_google == Length(ads_google) > 0
        has_shopify == Length(ads_shopify) > 0
        meta(col) == IF has_meta THEN sum_if_present(ads_meta, col) ELSE 0
        google(col) == IF has_google THEN sum_if_present(ads_google, col) ELSE 0
        total_spend == meta("spend") + google("cost")
        total_impressions == meta("impressions") + google("impressions")
        total_clicks == meta("clicks") + google("clicks")
        total_conversions == meta("conversions") + google("conversions")
        ads_revenue == meta("revenue") + google("conversion_value")
        numpy_spend == \/ has_meta /\ "spend" \in Cols(ads_meta)
                       \/ has_google /\ "cost" \in Cols(ads_google)
        shown == IF "roas" \in intents THEN "roas"
                 ELSE IF "ctr" \in intents THEN "ctr"
                 ELSE IF "cpc" \in intents THEN "cpc"
                 ELSE IF "cpa" \in intents THEN "cpa"
                 ELSE IF "spend" \in intents THEN "spend"
                 ELSE "overview"
        with_shares == shown = "spend" /\ has_meta /\ has_google
        shares == IF with_shares
                  THEN <<numpy_divide(sum_if_present(ads_meta, "spend"), total_spend, 100),
                         numpy_divide(sum_if_present(ads_google, "cost"), total_spend, 100)>>
                  ELSE <<>>
        platform_roas ==
            (IF has_meta
             THEN <<numpy_divide(sum_if_present(ads_meta, "revenue"),
                                 sum_if_present(ads_meta, "spend"), 1)>>
             ELSE <<>>)
            \o (IF has_google
                THEN <<numpy_divide(sum_if_present(ads_google, "conversion_value"),
                                    sum_if_present(ads_google, "cost"), 1)>>
                ELSE <<>>)
        trend == has_meta /\ "date" \in Cols(ads_meta)
    IN IF ~has_meta /\ ~has_google /\ ~has_shopify
       THEN [sections |-> {"no ads data", "how to add ads data"},
             charts |-> <<>>, tables |-> <<>>]
            @@ Message("get_ads_analysis", "No Ads Data Available")
       ELSE IF with_shares /\ total_spend = 0 /\ ~numpy_spend
       THEN [op |-> "get_ads_analysis", ok |-> FALSE, content |-> "ZeroDivisionError"]
       ELSE IF trend /\ ~({"spend", "conversions"} \subseteq Cols(ads_meta))
       THEN [op |-> "get_ads_analysis", ok |-> FALSE, content |-> "KeyError"]
       ELSE [op |-> "get_ads_analysis", ok |-> TRUE, content |-> shown,
             ctr |-> ratio_or_zero(total_clicks, total_impressions, 100),
             cpc |-> ratio_or_zero(total_spend, total_clicks, 1),
             cpa |-> ratio_or_zero(total_spend, total_conversions, 1),
             roas |-> ratio_or_zero(ads_revenue, total_spend, 1),
             shares |-> shares,
             platform_roas |-> platform_roas,
             charts |-> (IF has_meta \/ has_google
                         THEN <<"Ad Spend by Platform", "ROAS by Platform">> ELSE <<>>)
                        \o (IF trend THEN <<"Daily Performance Trend">> ELSE <<>>),
             tables |-> <<>>]

\* pd.to_datetime(cell, errors='coerce'): a date, or NULL (NaT) for a cell
\* that is missing or is not a date
to_datetime(cell) == IF cell \in {"d1", "d2"} THEN cell ELSE NULL

\* The table in ascending order of its keys
RECURSIVE sort_index(_)
sort_index(T) ==
    IF T = {} THEN <<>>
    ELSE LET g == CHOOSE g \in T : \A h \in T : Rank(g.key) <= Rank(h.key)
         IN <<g>> \o sort_index(T \ {g})

\* DataAnalyzer.get_revenue_trend: the daily revenue of the delivered orders.
\* groupby(...)[amount_col] raises a KeyError when amount_col is None or
\* names no column
get_revenue_trend(store, mappings) ==
    LET order_mappings == mappings.orders
        df == get_orders_with_helpers(store.orders, order_mappings)
        amount_col == order_mappings["total_amount"]
        date_col == get(order_mappings, "order_date")
        delivered == helper_delivered(df)
        dated == [k \in 1..Length(delivered) |->
                     [_date |-> to_datetime(delivered.rows[k][date_col])]
                     @@ delivered.rows[k]]
        temp == SelectSeq(dated, LAMBDA r : r._date # NULL)
    IN IF ~has_data(store)
       THEN Message("get_revenue_trend", "No orders data available")
       ELSE IF ~Valid(df, date_col)
       THEN Message("get_revenue_trend", "Date column not found")
       ELSE IF ~Valid(df, amount_col)
       THEN [op |-> "get_revenue_trend", ok |-> FALSE, content |-> "KeyError"]
       ELSE Table("get_revenue_trend", "revenue",
                  sort_index(groupby_agg(temp, "_date", amount_col)))

\* DataAnalyzer.process_query: the answer of the handler that the intents of
\* the question select, with the question, its intents and the handler
process_query(store, mappings, query) ==
    LET analysis == analyze_query[query]
        intents == analysis.intents
        handler == route(intents)
        answer ==
          CASE handler = "general_response" -> general_response(store)
            [] handler = "get_ads_analysis" -> get_ads_analysis(store, analysis)
            [] handler = "get_breakdown_analysis" ->
                 get_breakdown_by(store, mappings, first_dimension(intents), analysis.limit)
            [] handler = "get_summary" -> get_summary(store, mappings)
            [] handler = "get_revenue_trend" -> get_revenue_trend(store, mappings)
            [] handler = "get_revenue_analysis" -> get_revenue_analysis(store, mappings)
            [] handler = "get_rto_analysis" -> get_rto_analysis(store, mappings)
            [] handler = "get_top_products" ->
                 get_top_products(store, mappings, analysis.limit)
            [] handler = "get_top_customers" ->
                 get_top_customers(store, mappings, analysis.limit)
            [] handler = "get_city_analysis" ->
                 get_city_analysis(store, mappings, analysis.limit)
            [] handler = "get_orders_analysis" -> get_orders_analysis(store, mappings)
    IN [query |-> query, intents |-> intents, limit |-> analysis.limit,
        handler |-> handler] @@ answer

MaxQueryRows == 1

\* The column sets of the stored orders: every column, and no product column
ColumnSets ==
    {<<"order_id", "status", "payment", "amount", "product", "city", "customer", "date">>,
     <<"order_id", "status", "payment", "amount", "city", "customer", "date">>}

\* An order with its date
QueryRow(s, a, d) ==
    [order_id |-> "o1", status |-> s, payment |-> "COD", amount |-> a,
     product |-> "p1", city |-> "c1", customer |-> "u1", date |-> d]

QueryRows ==
    {QueryRow(s, a, d) : s \in {"Delivered", "RTO"}, a \in {NaN, Num(1)}, d \in {"d1", "d2"}}

\* The row with the cells of the columns cols only
Project(row, cols) == [c \in Range(cols) |-> row[c]]

\* The stored orders of a session: none, or rows under one of the column sets
QueryStores ==
    {EmptyFrame}
    \cup {Frame(cols, [k \in 1..Len(rs) |-> Project(rs[k], cols)]) :
            cols \in ColumnSets, rs \in SeqsUpTo(QueryRows, MaxQueryRows) \ {<<>>}}

\* The column that each field names in the files of the model
FieldColumn ==
    [order_id |-> "order_id", order_status |-> "status", total_amount |-> "amount",
     payment_method |-> "payment", product_name |-> "product",
     customer_name |-> "customer", city |-> "city", order_date |-> "date"]

\* The fields that the user has left mapped or has set to '(Not Mapped)'
OptionalFields ==
    {"order_status", "total_amount", "product_name", "customer_name", "order_date"}

\* A mapping in which the fields of the set mapped name their columns, where
\* the dataset df has them, and every other field is unmapped
MappingOf(df, mapped) ==
    [f \in DOMAIN FieldColumn |->
        IF f \in mapped /\ FieldColumn[f] \in Cols(df) THEN FieldColumn[f] ELSE None]

QueryInit ==
    /\ \E df \in QueryStores, unmapped \in SUBSET OptionalFields :
         /\ data_store = [orders |-> df]
         /\ column_mappings =
               [orders |-> MappingOf(df, (DOMAIN FieldColumn) \ unmapped)]
    /\ user_mappings = NoMappings
    /\ limit = 10
    /\ session_state = NoKeys
    /\ result = NoResult

ProcessQuery(query) ==
    result' = process_query(data_store, column_mappings, query) /\ Unchanged


----------------------------------------------------------------------------
(* Questions: QueryParser.parse and QueryParser.execute *)

\* The questions put to QueryParser
ParserQueries ==
    {"hello",
     "orders",
     "compare",
     "total revenue",
     "aov",
     "rto rate",
     "top 5 products",
     "top 1 customers",
     "cod vs prepaid",
     "top 3 city",
     "payment breakdown",
     "best 5 products",
     "RTO rate by payment method",
     "rto by payment",
     "rto by city"}

\* QueryParser.parse: the first query type with a pattern found in the
\* lower-cased question, 'unknown' without one; the limit after 'top'
parse ==
    [query \in ParserQueries |->
        CASE query = "hello" ->
               [query_type |-> "unknown"]
          [] query = "orders" ->
               [query_type |-> "unknown"]
          [] query = "compare" ->
               [query_type |-> "unknown"]
          [] query = "total revenue" ->
               [query_type |-> "total_revenue"]
          [] query = "aov" ->
               [query_type |-> "aov"]
          [] query = "rto rate" ->
               [query_type |-> "rto_rate"]
          [] query = "top 5 products" ->
               [query_type |-> "top_products", limit |-> 5]
          [] query = "top 1 customers" ->
               [query_type |-> "top_customers", limit |-> 1]
          [] query = "cod vs prepaid" ->
               [query_type |-> "cod_vs_prepaid"]
          [] query = "top 3 city" ->
               [query_type |-> "city_breakdown", limit |-> 3]
          [] query = "payment breakdown" ->
               [query_type |-> "payment_breakdown"]
          [] query = "best 5 products" ->
               [query_type |-> "top_products"]
          [] query = "RTO rate by payment method" ->
               [query_type |-> "rto_rate"]
          [] query = "rto by payment" ->
               [query_type |-> "rto_rate"]
          [] query = "rto by city" ->
               [query_type |-> "rto_rate"]
    ]

\* response = {'content': '', 'data': None, 'chart_data': None,
\*             'chart_type': None, 'insight': None}
Response(query, query_type) ==
    [op |-> "execute", ok |-> TRUE, query |-> query, query_type |-> query_type,
     content |-> "", data |-> None, chart_data |-> None, chart_type |-> None]

\* display_df = df.copy() with the revenue column formatted as currency
Display(table) == [formatted |-> table]

\* The response of a table branch of execute: the table and its chart when
\* the table has rows, the 'not available' text otherwise
TableResponse(response, answer, heading, absent, chart_type) ==
    IF ~answer.ok
    THEN [op |-> "execute", ok |-> FALSE, content |-> answer.content,
          query |-> response.query, query_type |-> response.query_type]
    ELSE IF Len(answer.table) > 0
    THEN [response EXCEPT !.content = heading, !.data = Display(answer.table),
                          !.chart_data = IF chart_type = None THEN None ELSE answer.table,
                          !.chart_type = chart_type]
    ELSE [response EXCEPT !.content = absent]

\* params.get('limit', 10)
limit_of(params) == IF "limit" \in DOMAIN params THEN params.limit ELSE 10

\* QueryParser.execute on an engine over the orders df
execute(df, mappings, query) ==
    LET params == parse[query]
        query_type == params.query_type
        response == Response(query, query_type)
    IN CASE query_type = "total_revenue" ->
              [response EXCEPT !.content = <<"Total Revenue", total_revenue(df, mappings)>>]
         [] query_type = "aov" ->
              [response EXCEPT !.content = <<"Average Order Value", aov(df, mappings)>>]
         [] query_type = "rto_rate" ->
              [response EXCEPT !.content = <<"RTO Rate", rto_rate(df, mappings)>>]
         [] query_type = "top_products" ->
              [limit |-> limit_of(params)] @@
              TableResponse(response, top_products(df, mappings, limit_of(params)),
                            "Top Products", "Product column not available.",
                            "horizontal_bar")
         [] query_type = "top_customers" ->
              [limit |-> limit_of(params)] @@
              TableResponse(response, top_customers(df, mappings, limit_of(params)),
                            "Top Customers", "Customer column not available.", None)
         [] query_type = "city_breakdown" ->
              [limit |-> limit_of(params)] @@
              TableResponse(response, city_breakdown(df, mappings, limit_of(params)),
                            "Top Cities", "City column not available.",
                            "horizontal_bar")
         [] query_type = "payment_breakdown" ->
              TableResponse(response, payment_breakdown(df, mappings),
                            "Revenue by Payment Method", "Payment column not available.",
                            "bar")
         [] query_type = "cod_vs_prepaid" ->
              LET answer == cod_vs_prepaid(df, mappings)
              IN IF answer.ok
                 THEN [response EXCEPT !.content = "COD vs Prepaid Comparison",
                                       !.chart_data = answer,
                                       !.chart_type = "comparison"]
                 ELSE IF "content" \in DOMAIN answer
                 THEN [op |-> "execute", ok |-> FALSE, content |-> answer.content,
                       query |-> query, query_type |-> query_type]
                 ELSE [response EXCEPT !.content = "Payment method column not available."]
         [] query_type = "unknown" ->
              [response EXCEPT !.content = "example questions"]

Execute(query) ==
    result' = execute(data_store.orders, column_mappings.orders, query) /\ Unchanged

QueryNext ==
    \/ \E query \in Queries : ProcessQuery(query)
    \/ \E query \in ParserQueries : Execute(query)

SpecQuery == QueryInit /\ [][QueryNext]_vars


----------------------------------------------------------------------------
(* process_query at the boundary of the chat *)

\* The exceptions that a handler lets out of process_query
Raised(answer) == ~answer.ok /\ answer.content = "KeyError"

\* C13: whatever the question, the stored orders and the mapped fields,
\* process_query returns an answer and does not raise.
C13_ProcessQueryNeverRaises ==
    "handler" \in DOMAIN result => ~Raised(result)


----------------------------------------------------------------------------
(* The three cleaners on raw files *)

\* DataFrame.drop_duplicates(subset=[col]): the first row of each key stays
drop_duplicates_subset(rs, col) ==
    Pick(rs, {i \in 1..Len(rs) :
                ~\E j \in 1..(i - 1) : rs[j][col] = rs[i][col]}, 1)

\* The names that str.contains('test|demo|sample|dummy') finds, lower-cased
TestNames == {"test user"}

\* DataProcessor.clean_dataframe.  No column of the model holds dates or
\* e-mail addresses
DataProcessor_clean_dataframe(df, mappings) ==
    LET order_id_col == get(mappings, "order_id")
        status_col == get(mappings, "order_status")
        payment_col == get(mappings, "payment_method")
        amount_col == get(mappings, "total_amount")
        name_col == get(mappings, "customer_name")
        deduped == IF Valid(df, order_id_col)
                   THEN drop_duplicates_subset(df.rows, order_id_col) ELSE df.rows
        statuses == IF Valid(df, status_col)
                    THEN MapCells(deduped, LAMBDA c : c = status_col, standardize_status)
                    ELSE deduped
        payments == IF Valid(df, payment_col)
                    THEN MapCells(statuses, LAMBDA c : c = payment_col, standardize_payment)
                    ELSE statuses
        amounts == IF Valid(df, amount_col)
                   THEN clean_amounts(payments, amount_col, PROCESSOR_CURRENCY)
                   ELSE payments
        kept == IF Valid(df, name_col)
                THEN SelectSeq(amounts, LAMBDA r : astype_str(r[name_col]) \notin TestNames)
                ELSE amounts
    IN Frame(df.columns, kept)

MaxCleanRows == 2

\* The cell '1,499.50', bare and after a currency sign
Amount1499_50 == <<"1", ",", "4", "9", "9", ".", "5", "0">>

\* What the amount cell of an uploaded file can hold: text, a number or
\* nothing
RawAmounts ==
    {Text(Amount1499_50), Text(<<"rupee">> \o Amount1499_50),
     Text(<<"$">> \o Amount1499_50), Text(<<"a", "b", "c">>),
     Dec(14995, 1), Num(1499), NaN}

RawCleanStatuses == {"delivered ", "rto", "RTO", "Undelivered", NULL}

\* The rows of raw files: an order under two ids with each amount, and its
\* variations in status and payment
RawRows ==
    {FileRow(id, "delivered ", "COD", a) : id \in {"o1", "o2"}, a \in RawAmounts}
    \cup {FileRow("o1", s, p, Num(1499)) : s \in RawCleanStatuses, p \in {"COD", "Cash"}}

\* A column read from a file is text or numbers, not both
RawFiles ==
    {df \in {Frame(OrderColumns, rs) : rs \in SeqsUpTo(RawRows, MaxCleanRows) \ {<<>>}} :
        \/ dtype(df.rows, "amount") # "object"
        \/ \A i \in 1..Length(df) :
              IsText(df.rows[i].amount) \/ df.rows[i].amount.na}

\* The mapping handed to DataProcessor.clean_dataframe
ProcessorMappings ==
    [order_id |-> "order_id", order_status |-> "status", payment_method |-> "payment",
     total_amount |-> "amount", customer_name |-> "customer"]

CleanInit ==
    /\ \E df \in RawFiles : data_store = [orders |-> df]
    /\ column_mappings = [orders |-> NoMappings]
    /\ user_mappings = NoMappings
    /\ limit = 10
    /\ session_state = NoKeys
    /\ result = NoResult

\* A cleaner on the file and on its own output
Cleaned(name, df, once, twice) ==
    [op |-> name, input |-> df, once |-> once, twice |-> twice]

CleanOnImport ==
    /\ result' = LET df == data_store.orders
                     once == clean_dataframe_on_import(df)
                 IN Cleaned("clean_dataframe_on_import", df, once,
                            clean_dataframe_on_import(once))
    /\ Unchanged

CleanDataframe ==
    /\ result' = LET df == data_store.orders
                     once == clean_dataframe(df)
                 IN Cleaned("clean_dataframe", df, once, clean_dataframe(once))
    /\ Unchanged

ProcessorCleanDataframe ==
    /\ result' = LET df == data_store.orders
                     once == DataProcessor_clean_dataframe(df, ProcessorMappings)
                 IN Cleaned("DataProcessor.clean_dataframe", df, once,
                            DataProcessor_clean_dataframe(once, ProcessorMappings))
    /\ Unchanged

CleanNext == CleanOnImport \/ CleanDataframe \/ ProcessorCleanDataframe

SpecClean == CleanInit /\ [][CleanNext]_vars

\* The canonical status of a synonym under the table of the cleaner, None
\* for a text that is no synonym
Canonical(op, s) ==
    IF op = "clean_dataframe_on_import"
    THEN IF title[strip[s]] \in DOMAIN status_map THEN status_map[title[strip[s]]] ELSE None
    ELSE IF strip[lower[s]] \in DOMAIN STATUS_MAP THEN STATUS_MAP[strip[lower[s]]] ELSE None

\* The status that the stated rule gives a raw status cell
Asymmetric(op, s) ==
    IF s = NULL THEN "Unknown"
    ELSE IF Canonical(op, s) # None THEN Canonical(op, s)
    ELSE title[strip[s]]

\* C14: in a file cleaned by clean_dataframe_on_import or by DataProcessor,
\* the status of every row is that of a row of the file under the rule:
\* 'Unknown' for a missing status, the canonical status for a synonym, the
\* trimmed title-cased text otherwise.
C14_StatusAsymmetry ==
    result.op \in {"clean_dataframe_on_import", "DataProcessor.clean_dataframe"}
    => \A j \in 1..Length(result.once) :
         \E i \in 1..Length(result.input) :
            /\ result.input.rows[i].order_id = result.once.rows[j].order_id
            /\ result.once.rows[j].status =
                  Asymmetric(result.op, result.input.rows[i].status)


CleanerNames ==
    {"clean_dataframe_on_import", "clean_dataframe", "DataProcessor.clean_dataframe"}

\* C15: each cleaner returns for its own output the table it was given: the
\* same rows with the same status, payment and amount.
C15_CleaningIdempotent ==
    result.op \in CleanerNames => result.twice = result.once


\* The raw amount cells that read as a number once currency signs, commas
\* and spaces are set aside, with that number
AmountValue(c) ==
    IF IsText(c)
    THEN IF c.text \in {Amount1499_50, <<"rupee">> \o Amount1499_50,
                        <<"$">> \o Amount1499_50}
         THEN Dec(14995, 1) ELSE NaN
    ELSE c

\* C16: in a cleaned file the amount of every row is the number that the
\* amount cell of a row of the file reads as ('1,499.50' with or without a
\* currency sign is 1499.5 and a number is itself), and is missing for a cell
\* that is no number.
C16_AmountKeepsValue ==
    result.op \in CleanerNames
    => \A j \in 1..Length(result.once) :
         \E i \in 1..Length(result.input) :
            /\ result.input.rows[i].order_id = result.once.rows[j].order_id
            /\ result.once.rows[j].amount = AmountValue(result.input.rows[i].amount)


----------------------------------------------------------------------------
(* Merging an import into the stored orders *)

\* The rows of df have different values in the column col
UniqueIn(df, col) ==
    \A i, j \in 1..Length(df) : df.rows[i][col] = df.rows[j][col] => i = j

\* C17: an import into stored orders leaves at most one row for each order
\* id, when the mapping has the column of the order id.
C17_MergeKeepsOneRowPerOrder ==
    [][(/\ Length(data_store.orders) > 0
        /\ data_store' # data_store
        /\ Valid(data_store'.orders, column_mappings'.orders["order_id"]))
       => UniqueIn(data_store'.orders, column_mappings'.orders["order_id"])]_vars


----------------------------------------------------------------------------
(* Routing over every small set of detected intents *)

MaxIntents == 2

\* The sets of at most n intents
RECURSIVE IntentSets(_)
IntentSets(n) ==
    IF n = 0 THEN {{}}
    ELSE LET smaller == IntentSets(n - 1)
         IN smaller \cup {S \cup {intent} : S \in smaller, intent \in Range(Intents)}

RoutingInit ==
    /\ data_store = [orders |-> EmptyFrame]
    /\ column_mappings = [orders |-> NoMappings]
    /\ user_mappings = NoMappings
    /\ limit = 10
    /\ session_state = NoKeys
    /\ result = NoResult

\* process_query up to the choice of the handler, for a question in which
\* analyze_query has detected the given intents
Route(intents) ==
    /\ result' = [op |-> "route", intents |-> intents, handler |-> route(intents)]
    /\ Unchanged

RoutingNext == \E intents \in IntentSets(MaxIntents) : Route(intents)

SpecRouting == RoutingInit /\ [][RoutingNext]_vars

\* The handlers in the order of their priority
Priority ==
    <<"get_ads_analysis", "get_breakdown_analysis", "get_summary", "get_revenue_trend",
      "get_breakdown_analysis", "get_revenue_analysis", "get_rto_analysis",
      "get_payment_analysis", "get_top_products", "get_product_analysis",
      "get_top_customers", "get_customer_analysis", "get_inventory_analysis",
      "get_city_analysis", "get_state_analysis", "get_category_analysis",
      "get_payment_breakdown", "get_status_analysis", "get_orders_trend",
      "get_orders_analysis">>

\* The condition on the intents under which the k-th entry is chosen
Selects(k, I) ==
    CASE k = 1 -> AdsIntents \cap I # {}
      [] k = 2 -> "breakdown" \in I
      [] k = 3 -> "summary" \in I
      [] k = 4 -> {"revenue", "trend"} \subseteq I
      [] k = 5 -> {"revenue", "city"} \subseteq I
      [] k = 6 -> "revenue" \in I
      [] k = 7 -> "rto" \in I
      [] k = 8 -> {"cod", "prepaid"} \cap I # {}
      [] k = 9 -> {"products", "top"} \subseteq I
      [] k = 10 -> "products" \in I
      [] k = 11 -> {"customers", "top"} \subseteq I
      [] k = 12 -> "customers" \in I
      [] k = 13 -> "inventory" \in I
      [] k = 14 -> "city" \in I
      [] k = 15 -> "state" \in I
      [] k = 16 -> "category" \in I
      [] k = 17 -> "payment" \in I
      [] k = 18 -> "status" \in I
      [] k = 19 -> "trend" \in I
      [] k = 20 -> "orders" \in I

\* C18: a question with an ads intent goes to the ads handler whatever else
\* was detected; without one, a question with 'breakdown' goes to the
\* breakdown handler; and the handler chosen is that of the first condition
\* of the order that holds, the help menu when none holds.
C18_RoutingPriority ==
    (result.op = "route" /\ result.intents # {})
    => LET I == result.intents
           holding == {k \in 1..Len(Priority) : Selects(k, I)}
       IN /\ AdsIntents \cap I # {} => result.handler = "get_ads_analysis"
          /\ (AdsIntents \cap I = {} /\ "breakdown" \in I)
                => result.handler = "get_breakdown_analysis"
          /\ IF holding = {} THEN result.handler = "general_response"
             ELSE result.handler =
                     Priority[CHOOSE k \in holding : \A j \in holding : k <= j]

C18_Witness ==
    /\ result.op = "route"
    /\ result.intents = {"spend", "breakdown"}
    /\ result.handler = "get_ads_analysis"


----------------------------------------------------------------------------
(* Questions that no handler answers *)

\* No condition of the order holds for the intents
NoHandler(I) == \A k \in 1..Len(Priority) : ~Selects(k, I)

\* The answer of QueryParser.execute for a question of type 'unknown': the
\* example questions, and no data and no chart
UnknownIsExamples ==
    (result.op = "execute" /\ result.query_type = "unknown")
    => /\ result.ok
       /\ result.content = "example questions"
       /\ result.data = None /\ result.chart_data = None /\ result.chart_type = None

----------------------------------------------------------------------------
(* 'top 5 products' on orders without a product column *)

\* No column of df has product, item or sku in its name
NoProductColumn(df) ==
    \A c \in Cols(df) : Words(c) \cap {"product", "item", "sku"} = {}

\* C20: on loaded orders with no product mapping and no product-like column,
\* 'top 5 products' is answered, without an exception, a chart or a table,
\* by the message that the product column was not found, and the message
\* lists every column of the dataset.
C20_ProductColumnNotFound ==
    (/\ "handler" \in DOMAIN result
     /\ result.query = "top 5 products"
     /\ has_data(data_store)
     /\ ~Truthy(column_mappings.orders["product_name"])
     /\ NoProductColumn(data_store.orders))
    => /\ result.op = "get_top_products"
       /\ ~Raised(result)
       /\ result.content = "Product Column Not Found"
       /\ "table" \notin DOMAIN result
       /\ Cols(data_store.orders) \subseteq Range(result.columns)

C20_Witness ==
    /\ "handler" \in DOMAIN result
    /\ result.query = "top 5 products"
    /\ has_data(data_store)
    /\ NoProductColumn(data_store.orders)
    /\ result.content = "Product Column Not Found"
    /\ "city" \in Range(result.columns)


----------------------------------------------------------------------------
(* Ads questions without ads data *)

\* The datasets of the store that have rows
Loaded(store) == {d \in DOMAIN store : Length(store[d]) > 0}

\* C21: when no ads dataset has rows, 'what is my ROAS' is answered, without
\* charts and tables, by a message that says that ads data is missing, lists
\* the datasets that are loaded and tells how to add ads data.
C21_NoAdsDataMessage ==
    (/\ "handler" \in DOMAIN result
     /\ result.query = "what is my ROAS"
     /\ Loaded(data_store) \cap {"ads_meta", "ads_google", "ads_shopify"} = {})
    => /\ result.op = "get_ads_analysis"
       /\ ~Raised(result)
       /\ {"no ads data", "how to add ads data"} \subseteq result.sections
       /\ result.charts = <<>> /\ result.tables = <<>>
       /\ "available" \in DOMAIN result
       /\ result.available = Loaded(data_store)


----------------------------------------------------------------------------
(* Ads questions over loaded ads datasets *)

MaxAdsRows == 1

\* The questions that get_ads_analysis answers: its ROAS branch, its spend
\* branch and its overview
AdsQueries == {"what is my ROAS", "ad spend", "show ads breakdown"}

\* A day of a Meta Ads export
MetaRow(s, i, c, v, r) ==
    [date |-> "d1", spend |-> Num(s), impressions |-> Num(i), clicks |-> Num(c),
     conversions |-> Num(v), revenue |-> Num(r)]

MetaRows == {MetaRow(s, i, c, v, r) : s \in 0..1, i \in 0..1, c \in 0..1,
                                       v \in 0..1, r \in 0..1}

\* The columns of a Meta Ads export: with and without its date and its spend
MetaColumnSets ==
    {<<"date", "spend", "impressions", "clicks", "conversions", "revenue">>,
     <<"spend", "impressions", "clicks", "conversions", "revenue">>,
     <<"date", "impressions", "clicks", "conversions", "revenue">>,
     <<"impressions", "clicks", "conversions", "revenue">>}

\* A day of a Google Ads export
GoogleRow(n) ==
    [cost |-> Num(n), impressions |-> Num(n), clicks |-> Num(n),
     conversions |-> Num(n), conversion_value |-> Num(n)]

GoogleColumnSets ==
    {<<"cost", "impressions", "clicks", "conversions", "conversion_value">>,
     <<"impressions", "clicks", "conversions", "conversion_value">>}

\* The frames with up to MaxAdsRows of the rows, under each column set
AdsFrames(rowset, columnsets) ==
    {EmptyFrame}
    \cup {Frame(cols, [k \in 1..Len(rs) |-> Project(rs[k], cols)]) :
            cols \in columnsets, rs \in SeqsUpTo(rowset, MaxAdsRows) \ {<<>>}}

ShopifyFrames == {EmptyFrame, Frame(<<"spend">>, <<[spend |-> Num(1)]>>)}

AdsInit ==
    /\ \E m \in AdsFrames(MetaRows, MetaColumnSets),
          g \in AdsFrames({GoogleRow(0), GoogleRow(1)}, GoogleColumnSets),
          s \in ShopifyFrames :
         data_store = [orders |-> EmptyFrame, ads_meta |-> m, ads_google |-> g,
                       ads_shopify |-> s]
    /\ column_mappings = [orders |-> MappingOf(EmptyFrame, {})]
    /\ user_mappings = NoMappings
    /\ limit = 10
    /\ session_state = NoKeys
    /\ result = NoResult

AdsNext == \E query \in AdsQueries : ProcessQuery(query)

SpecAds == AdsInit /\ [][AdsNext]_vars

\* The total over Meta Ads and Google Ads that get_ads_analysis divides by
ads_total(store, meta_col, google_col) ==
    sum_if_present(dataset(store, "ads_meta"), meta_col)
    + sum_if_present(dataset(store, "ads_google"), google_col)

\* A ratio that is a number: neither NaN nor infinity
Finite(r) == ~r.na /\ r.den # 0

\* A ratio that is a number and that is 0 when its denominator d is 0
ZeroOnZero(r, d) == Finite(r) /\ (d = 0 => r = Zero)

\* C22: over every set of loaded ads datasets and columns, get_ads_analysis
\* raises nothing and each of its ratios (CTR, CPC, CPA, ROAS, the ROAS of a
\* platform and the share of a platform in the spend) is a number, and is 0
\* when its denominator is 0.
C22_AdsRatiosZeroOnZeroDenominator ==
    (/\ "handler" \in DOMAIN result
     /\ result.handler = "get_ads_analysis"
     /\ Loaded(data_store) \cap {"ads_meta", "ads_google", "ads_shopify"} # {})
    => /\ result.ok
       /\ ZeroOnZero(result.ctr, ads_total(data_store, "impressions", "impressions"))
       /\ ZeroOnZero(result.cpc, ads_total(data_store, "clicks", "clicks"))
       /\ ZeroOnZero(result.cpa, ads_total(data_store, "conversions", "conversions"))
       /\ ZeroOnZero(result.roas, ads_total(data_store, "spend", "cost"))
       /\ \A k \in DOMAIN result.shares :
            ZeroOnZero(result.shares[k], ads_total(data_store, "spend", "cost"))
       /\ \A k \in DOMAIN result.platform_roas :
            ZeroOnZero(result.platform_roas[k], ads_total(data_store, "spend", "cost"))

\* The four overall ratios alone
OverallRatiosGuarded ==
    (/\ "handler" \in DOMAIN result
     /\ result.handler = "get_ads_analysis"
     /\ result.ok /\ "ctr" \in DOMAIN result)
    => /\ ZeroOnZero(result.ctr, ads_total(data_store, "impressions", "impressions"))
       /\ ZeroOnZero(result.cpc, ads_total(data_store, "clicks", "clicks"))
       /\ ZeroOnZero(result.cpa, ads_total(data_store, "conversions", "conversions"))
       /\ ZeroOnZero(result.roas, ads_total(data_store, "spend", "cost"))


----------------------------------------------------------------------------
(* Names for IDs: DataAnalyzer._enrich_with_names *)

MaxEnrichRows == 2

\* head(20): the values that are sampled to tell IDs from names
SampleSize == 20

\* _build_product_lookup over a products dataset with the columns sku and
\* name: str(sku) -> str(name) for each row; {} for an empty dataset
_build_product_lookup(products) ==
    IF Length(products) > 0 /\ {"sku", "name"} \subseteq Cols(products)
    THEN [id \in {astype_str(products.rows[k].sku) : k \in 1..Length(products)} |->
            LET k == CHOOSE k \in 1..Length(products) :
                       /\ astype_str(products.rows[k].sku) = id
                       /\ \A j \in 1..Length(products) :
                            astype_str(products.rows[j].sku) = id => j <= k
            IN astype_str(products.rows[k].name)]
    ELSE <<>>

\* f'{entity_type.title()} Name'
name_column(entity_type) ==
    IF entity_type = "product" THEN "Product Name" ELSE "Customer Name"

\* DataAnalyzer._enrich_with_names on a copy of df.  When at least 30% of the
\* sampled values of the column are keys of the lookup, the column named
\* name_column is set to the looked-up name, or to the cell of the column
\* where the lookup has none: df[name_col] = ... adds the column when df has
\* none of that name and replaces its cells when df has one
_enrich_with_names(df, column, entity_type, lookup) ==
    LET present == SelectSeq([k \in 1..Length(df) |-> df.rows[k][column]],
                             LAMBDA c : c # NULL)
        sample_values == head([k \in 1..Len(present) |-> astype_str(present[k])],
                              SampleSize)
        matches == Cardinality({k \in 1..Len(sample_values) :
                                  sample_values[k] \in DOMAIN lookup})
        name_col == name_column(entity_type)
        name_of(c) == IF astype_str(c) \in DOMAIN lookup
                      THEN lookup[astype_str(c)] ELSE c
        enriched ==
            Frame(IF name_col \in Cols(df) THEN df.columns
                  ELSE Append(df.columns, name_col),
                  [k \in 1..Length(df) |->
                      [c \in Cols(df) \cup {name_col} |->
                          IF c = name_col THEN name_of(df.rows[k][column])
                          ELSE df.rows[k][c]]])
    IN IF DOMAIN lookup = {} THEN [df |-> df, display |-> column]
       ELSE IF matches * 10 >= Len(sample_values) * 3
       THEN [df |-> enriched, display |-> name_col]
       ELSE [df |-> df, display |-> column]

\* The orders that are enriched: a product key, a product name of the file
\* and a quantity
EnrichRows ==
    {[sku |-> s, Product_Name |-> n, qty |-> "1"] :
        s \in {"p1", "p2", NULL}, n \in {"n0", "p1"}}

EnrichColumnSets ==
    {<<"sku", "qty">>, <<"sku", "Product Name", "qty">>, <<"Product Name", "qty">>}

\* The row of the file with the columns cols
EnrichRow(r, cols) ==
    [c \in Range(cols) |-> IF c = "Product Name" THEN r.Product_Name ELSE r[c]]

EnrichFrames ==
    {Frame(cols, [k \in 1..Len(rs) |-> EnrichRow(rs[k], cols)]) :
        cols \in EnrichColumnSets, rs \in SeqsUpTo(EnrichRows, MaxEnrichRows)}

ProductFrames ==
    {EmptyFrame,
     Frame(<<"sku", "name">>, <<[sku |-> "p1", name |-> "n1"]>>),
     Frame(<<"sku", "name">>, <<[sku |-> "p1", name |-> "n1"], [sku |-> "p2", name |-> "n2"]>>)}

EnrichInit ==
    /\ \E df \in EnrichFrames, products \in ProductFrames :
         data_store = [orders |-> df, products |-> products]
    /\ column_mappings = [orders |-> MappingOf(EmptyFrame, {})]
    /\ user_mappings = NoMappings
    /\ limit = 10
    /\ session_state = NoKeys
    /\ result = NoResult

\* delivered, display_col = self._enrich_with_names(delivered, product_col, 'product')
EnrichWithNames(column) ==
    /\ column \in Cols(data_store.orders)
    /\ result' = [op |-> "_enrich_with_names", column |-> column]
                 @@ _enrich_with_names(data_store.orders, column, "product",
                                       _build_product_lookup(data_store.products))
    /\ Unchanged

EnrichNext == \E column \in {"sku", "Product Name"} : EnrichWithNames(column)

SpecEnrich == EnrichInit /\ [][EnrichNext]_vars

\* The cells of column c, in row order
ColumnOf(df, c) == [k \in 1..Length(df) |-> df.rows[k][c]]

\* C23: the frame that _enrich_with_names returns has the rows of its input,
\* the cells of the input in every column other than the enriched one, and at
\* most one column more than the input.
C23_EnrichKeepsFrame ==
    result.op = "_enrich_with_names"
    => LET input == data_store.orders
       IN /\ Length(result.df) = Length(input)
          /\ \A c \in Cols(input) \ {result.column} :
               /\ c \in Cols(result.df)
               /\ ColumnOf(result.df, c) = ColumnOf(input, c)
          /\ Cardinality(Cols(result.df) \ Cols(input)) <= 1

\* The rows and the number of columns alone
EnrichKeepsRows ==
    result.op = "_enrich_with_names"
    => /\ Length(result.df) = Length(data_store.orders)
       /\ Cardinality(Cols(result.df) \ Cols(data_store.orders)) <= 1
       /\ Cols(data_store.orders) \subseteq Cols(result.df)


----------------------------------------------------------------------------
(* Currency: format_currency and the copies of format_inr *)

MaxExponent == 7

Crore == 10000000
Lakh == 100000
Thousand == 1000

RECURSIVE Pow10(_)
Pow10(e) == IF e = 0 THEN 1 ELSE 10 * Pow10(e - 1)

\* f"{n / d:.{places}f}" as the number of units of 10^-places, for a divisor
\* that is a multiple of 10^places: the nearest number of units, the upper
\* of two that are equally near
fixed(n, d, places) ==
    LET unit == d \div Pow10(places) IN (2 * n + unit) \div (2 * unit)

\* The text symbol + number + unit: the number has `places` decimals and is
\* value / divisor; grouped tells the thousands separators of ',.0f'
Rendered(symbol, value, divisor, places, unit, grouped) ==
    [symbol |-> symbol, number |-> fixed(value, divisor, places), divisor |-> divisor,
     places |-> places, unit |-> unit, grouped |-> grouped]

\* utils.formatters.format_currency(value) with currency 'INR', for a value
\* that is a number (pd.isna(value) is False and abs(value) is value)
format_currency(value) ==
    IF value >= Crore THEN Rendered("rupee", value, Crore, 2, "Cr", FALSE)
    ELSE IF value >= Lakh THEN Rendered("rupee", value, Lakh, 2, "L", FALSE)
    ELSE IF value >= Thousand THEN Rendered("rupee", value, 1, 0, "", TRUE)
    ELSE Rendered("rupee", value, 1, 0, "", FALSE)

\* format_inr of app.py, views/dashboard.py, views/ads_analytics.py and
\* views/reports.py, and of views/ai_chat.py, whose rupee sign is stored in
\* the file as the three characters of its wrongly decoded bytes
format_inr(symbol, value) ==
    IF value = 0 THEN Rendered(symbol, 0, 1, 0, "", FALSE)
    ELSE IF value >= Crore THEN Rendered(symbol, value, Crore, 2, " Cr", FALSE)
    ELSE IF value >= Lakh THEN Rendered(symbol, value, Lakh, 2, " L", FALSE)
    ELSE Rendered(symbol, value, 1, 0, "", TRUE)

\* format_inr of pages/dashboard.py
pages_format_inr(value) ==
    IF value >= Crore THEN Rendered("rupee", value, Crore, 2, " Cr", FALSE)
    ELSE IF value >= Lakh THEN Rendered("rupee", value, Lakh, 2, " L", FALSE)
    ELSE IF value >= Thousand THEN Rendered("rupee", value, Thousand, 1, "K", FALSE)
    ELSE Rendered("rupee", value, 1, 0, "", TRUE)

\* The modules with a currency formatter
Formatters ==
    {"utils.formatters", "app", "views.ai_chat", "views.dashboard", "pages.dashboard"}

format_by(module, value) ==
    CASE module = "utils.formatters" -> format_currency(value)
      [] module = "views.ai_chat" -> format_inr("mis-decoded rupee", value)
      [] module = "pages.dashboard" -> pages_format_inr(value)
      [] module \in {"app", "views.dashboard"} -> format_inr("rupee", value)

\* The amounts that are formatted: 0, one to nine units of each power of ten,
\* and the amounts next to the two thresholds
Amounts ==
    {0, Lakh - 1, 140000, Crore - 1}
    \cup {d * Pow10(e) : d \in 1..9, e \in 0..MaxExponent}

FormatInit ==
    /\ data_store = [orders |-> EmptyFrame]
    /\ column_mappings = [orders |-> MappingOf(EmptyFrame, {})]
    /\ user_mappings = NoMappings
    /\ limit = 10
    /\ session_state = NoKeys
    /\ result = NoResult

Format(module, value) ==
    /\ result' = [op |-> "format", module |-> module, value |-> value]
                 @@ format_by(module, value)
    /\ Unchanged

FormatNext == \E module \in Formatters, value \in Amounts : Format(module, value)

SpecFormat == FormatInit /\ [][FormatNext]_vars

\* The letters of a unit
Letters(unit) ==
    CASE unit \in {"Cr", " Cr"} -> "Cr" [] unit \in {"L", " L"} -> "L"
      [] unit = "K" -> "K" [] unit = "" -> ""

\* C24: every formatter renders an amount v >= 0 in crores with two decimals
\* from 10,000,000, in lakhs with two decimals from 100,000 and unscaled
\* below 100,000.
C24_FormattersChooseSameScale ==
    result.op = "format"
    => LET v == result.value
       IN /\ v >= Crore =>
               /\ result.divisor = Crore /\ result.places = 2
               /\ Letters(result.unit) = "Cr"
          /\ (v >= Lakh /\ v < Crore) =>
               /\ result.divisor = Lakh /\ result.places = 2
               /\ Letters(result.unit) = "L"
          /\ v < Lakh => result.divisor = 1 /\ Letters(result.unit) = ""

\* The scale of the formatters other than that of pages/dashboard.py
ScaleOutsidePages ==
    (result.op = "format" /\ result.module # "pages.dashboard")
    => LET v == result.value
       IN /\ v >= Crore => result.divisor = Crore /\ Letters(result.unit) = "Cr"
          /\ (v >= Lakh /\ v < Crore) =>
               /\ result.divisor = Lakh /\ Letters(result.unit) = "L"
               /\ (v = 140000 => result.number = 140 /\ result.places = 2)
          /\ v < Lakh => result.divisor = 1 /\ Letters(result.unit) = ""


----------------------------------------------------------------------------
(* Auto-mapping of files with several candidate columns *)

MaxColumns == 3

\* The column names of the uploaded files
CandidateColumns == {"total", "total_amount", "amount", "order_id", "status"}

\* The files: up to MaxColumns distinct columns in any order, no rows needed
CandidateFiles ==
    {Frame(cols, <<>>) :
        cols \in {s \in SeqsUpTo(CandidateColumns, MaxColumns) :
                    \A i, j \in 1..Len(s) : i # j => s[i] # s[j]}}

AutoMapInit ==
    /\ \E df \in CandidateFiles : data_store = [orders |-> df]
    /\ column_mappings = [orders |-> MappingOf(EmptyFrame, {})]
    /\ user_mappings = NoMappings
    /\ limit = 10
    /\ session_state = NoKeys
    /\ result = NoResult

\* [v.lower().replace('_', ' ') for v in variations] and
\* [v.lower() for v in variations], as lists
variations_of(name, f) ==
    IF name = "auto_map_columns_for_type"
    THEN [k \in 1..Len(APP_COLUMN_MAPPINGS[f]) |->
            replace_underscore[lower[APP_COLUMN_MAPPINGS[f][k]]]]
    ELSE [k \in 1..Len(COLUMN_MAPPINGS[f]) |-> lower[COLUMN_MAPPINGS[f][k]]]

\* column_map = auto_map_columns_for_type(df, 'orders') on the onboarding
\* path, auto_map_columns(df, 'orders') in the Data Manager
AutoMapColumns(name) ==
    /\ result' = [op |-> name,
                  column_map |-> IF name = "auto_map_columns_for_type"
                                 THEN auto_map_columns_for_type(data_store.orders)
                                 ELSE auto_map_columns(data_store.orders)]
    /\ Unchanged

AutoMapNext ==
    \E name \in {"auto_map_columns_for_type", "auto_map_columns"} : AutoMapColumns(name)

SpecAutoMap == AutoMapInit /\ [][AutoMapNext]_vars

\* The place of the first occurrence of x in the list
index(list, x) == CHOOSE k \in 1..Len(list) : list[k] = x /\ \A j \in 1..(k - 1) : list[j] # x

\* The columns of df whose normalized name is a variation of the list
Candidates(df, list) == {c \in Cols(df) : normalize(c) \in Range(list)}

\* C25: when two or more columns of a file are, once normalized, variations
\* of one field, the field is mapped to the column whose variation comes
\* first in the list of the field, whatever the order of the columns.
C25_EarliestSynonymWins ==
    result.op \in {"auto_map_columns_for_type", "auto_map_columns"}
    => \A f \in Fields :
         LET list == variations_of(result.op, f)
             found == Candidates(data_store.orders, list)
         IN Cardinality(found) >= 2
            => /\ result.column_map[f] \in found
               /\ \A c \in found :
                    index(list, normalize(result.column_map[f])) <= index(list, normalize(c))

\* What the code does: the first candidate in column order wins
FirstColumnWins ==
    result.op \in {"auto_map_columns_for_type", "auto_map_columns"}
    => \A f \in Fields :
         LET list == variations_of(result.op, f)
             found == Candidates(data_store.orders, list)
             columns == data_store.orders.columns
         IN found # {}
            => /\ result.column_map[f] \in found
               /\ \A k \in 1..Len(columns) :
                    columns[k] \in found =>
                      \E j \in 1..k : columns[j] = result.column_map[f]


----------------------------------------------------------------------------
(* The limit of the top-N answers *)

\* The first integer that is written in the question, 10 for a question
\* without one
first_integer(query) ==
    CASE query \in {"top 5 products", "best 5 products"} -> 5
      [] query = "top 1 customers" -> 1
      [] query = "top 3 city" -> 3
      [] OTHER -> 10

\* The answers that take a limit
TopNHandlers == {"get_top_products", "get_top_customers"}
TopNTypes == {"top_products", "top_customers", "city_breakdown"}

IsTopN ==
    \/ "handler" \in DOMAIN result /\ result.handler \in TopNHandlers
    \/ "query_type" \in DOMAIN result /\ result.query_type \in TopNTypes

\* C26: in both classifiers the limit of a top-N answer is the first integer
\* of the question and 10 without one; 'best 5 products' is answered with
\* the limit 5.
C26_LimitIsFirstInteger ==
    IsTopN => result.limit = first_integer(result.query)

\* The limit of DataAnalyzer alone
AnalyzerLimitIsFirstInteger ==
    ("handler" \in DOMAIN result /\ result.handler \in TopNHandlers)
    => result.limit = first_integer(result.query)


----------------------------------------------------------------------------
(* RTO questions with a dimension *)

\* C27: QueryParser classifies an RTO question that names the payment method
\* as rto_by_payment and one that names the city as rto_by_city, not as
\* rto_rate.
C27_RtoByDimension ==
    ("query_type" \in DOMAIN result)
    => /\ result.query \in {"RTO rate by payment method", "rto by payment"}
            => result.query_type = "rto_by_payment"
       /\ result.query = "rto by city" => result.query_type = "rto_by_city"

\* What the code does: the three questions are answered with the RTO rate
RtoQuestionsAreRtoRate ==
    ("query_type" \in DOMAIN result
     /\ result.query \in {"RTO rate by payment method", "rto by payment", "rto by city"})
    => result.query_type = "rto_rate" /\ result.content[1] = "RTO Rate"


----------------------------------------------------------------------------
(* Named datasets: utils/session.py *)

MaxDatasets == 3

DatasetNames == {"sales", "returns", "ads", "archive"}

\* The keys of st.session_state.datasets, in insertion order
keys(datasets) == {datasets[k].name : k \in 1..Len(datasets)}

\* init_session_state: no dataset and no active dataset
SessionDefaults == [datasets |-> <<>>, active_dataset |-> None]

\* add_dataset: datasets[name] = {...} replaces the entry of a name that is
\* a key and appends one otherwise; the name becomes the active dataset
add_dataset(state, name, df) ==
    [datasets |->
        IF name \in keys(state.datasets)
        THEN [k \in 1..Len(state.datasets) |->
                IF state.datasets[k].name = name THEN [name |-> name, df |-> df]
                ELSE state.datasets[k]]
        ELSE Append(state.datasets, [name |-> name, df |-> df]),
     active_dataset |-> name]

\* remove_dataset without the choice of a new active dataset
remove_dataset_only(state, name) ==
    [state EXCEPT !.datasets = SelectSeq(state.datasets, LAMBDA d : d.name # name)]

\* remove_dataset: del datasets[name] for a name that is a key; when the name
\* was the active dataset, the first remaining key becomes active, or None
remove_dataset(state, name) ==
    IF name \in keys(state.datasets)
    THEN LET remaining == SelectSeq(state.datasets, LAMBDA d : d.name # name)
         IN [datasets |-> remaining,
             active_dataset |->
                IF state.active_dataset = name
                THEN IF remaining # <<>> THEN remaining[1].name ELSE None
                ELSE state.active_dataset]
    ELSE state

DatasetsInit ==
    /\ data_store = [orders |-> EmptyFrame]
    /\ column_mappings = [orders |-> MappingOf(EmptyFrame, {})]
    /\ user_mappings = NoMappings
    /\ limit = 10
    /\ session_state = SessionDefaults
    /\ result = NoResult

AddDataset(name, df) ==
    /\ name \in keys(session_state.datasets) \/ Len(session_state.datasets) < MaxDatasets
    /\ session_state' = add_dataset(session_state, name, df)
    /\ result' = [op |-> "add_dataset", name |-> name,
                  active_before |-> session_state.active_dataset]
    /\ UNCHANGED <<data_store, column_mappings, user_mappings, limit>>

RemoveDataset(name) ==
    /\ session_state' = remove_dataset(session_state, name)
    /\ result' = [op |-> "remove_dataset", name |-> name,
                  active_before |-> session_state.active_dataset]
    /\ UNCHANGED <<data_store, column_mappings, user_mappings, limit>>

DatasetsNext ==
    \/ \E name \in DatasetNames, df \in {"df1", "df2"} : AddDataset(name, df)
    \/ \E name \in DatasetNames : RemoveDataset(name)

SpecDatasets == DatasetsInit /\ [][DatasetsNext]_vars

\* C28: the active dataset is None or a key of datasets, and None only when
\* there is no dataset; removing the active dataset makes another dataset
\* active when one remains, and removing any other name leaves the active
\* dataset as it was.
C28_ActiveDatasetIsAKey ==
    result.op \in {"add_dataset", "remove_dataset"}
    => LET names == keys(session_state.datasets)
           active == session_state.active_dataset
       IN /\ active = None \/ active \in names
          /\ active = None => names = {}
          /\ result.op = "remove_dataset" =>
               IF result.active_before = result.name
               THEN /\ result.name \notin names
                    /\ names # {} => active \in names
               ELSE active = result.active_before

\* The active dataset has been removed while another one was left
C28_Witness ==
    /\ result.op = "remove_dataset"
    /\ result.active_before = result.name
    /\ session_state.datasets # <<>>
    /\ session_state.active_dataset = session_state.datasets[1].name


----------------------------------------------------------------------------
(* Settings: clearing datasets, then importing *)

\* The keys of data_store that init_session_state creates
DatasetTypes ==
    {"orders", "order_items", "customers", "products", "inventory", "returns",
     "reviews", "website_traffic", "ads_meta", "ads_google", "ads_shopify"}

\* init_session_state: an empty frame for every dataset type.  A later run
\* keeps the data_store that the session has, whatever its keys
SettingsInit ==
    /\ data_store = [t \in DatasetTypes |-> EmptyFrame]
    /\ column_mappings = <<>>
    /\ user_mappings = NoMappings
    /\ limit = 10
    /\ session_state = NoKeys
    /\ result = NoResult

\* The 'Clear' button of a dataset: shown for a dataset that has rows
Clear(key) ==
    /\ Length(dataset(data_store, key)) > 0
    /\ data_store' = [data_store EXCEPT ![key] = EmptyFrame]
    /\ result' = [op |-> "clear", key |-> key]
    /\ UNCHANGED <<column_mappings, user_mappings, limit, session_state>>

\* The 'Clear All Data' button
ClearAllData ==
    /\ data_store' = <<>>
    /\ column_mappings' = <<>>
    /\ result' = [op |-> "clear_all_data"]
    /\ UNCHANGED <<user_mappings, limit, session_state>>

SettingsNext ==
    \/ \E key \in DatasetTypes : Clear(key)
    \/ ClearAllData
    \/ \E file \in Files, clean_on_import \in BOOLEAN, merge_existing \in BOOLEAN :
          DataManagerImport(file, clean_on_import, merge_existing)

SpecSettings == SettingsInit /\ [][SettingsNext]_vars

\* C29: whatever has been cleared, every dataset type of the initial
\* data_store can still be read and an import of the Data Manager does not
\* fail: its rows are stored.
C29_StoreStaysUsable ==
    /\ DatasetTypes \subseteq DOMAIN data_store
    /\ ~(result.op = "import" /\ ~result.ok)

\* The 'Clear' button alone leaves every key in place
ClearKeepsKeys ==
    result.op = "clear"
    => DatasetTypes \subseteq DOMAIN data_store /\ Length(data_store[result.key]) = 0


----------------------------------------------------------------------------
(* Alerts: utils/alerts.py *)

MaxAlertRows == 1
MaxRules == 2

\* DEFAULT_ALERT_RULES: the rule on the RTO rate
DEFAULT_ALERT_RULES ==
    <<[id |-> "high_rto", metric |-> "rto_rate", condition |-> "greater_than",
       threshold |-> 15, severity |-> "critical", enabled |-> TRUE]>>

\* init_alerts
AlertDefaults ==
    [alert_rules |-> DEFAULT_ALERT_RULES, active_alerts |-> <<>>,
     alerts_dismissed |-> {}]

\* calculate_metrics over the orders: the RTO rate when the status column is
\* mapped, the revenue (without a date column, the sum of the amounts) when
\* the amount column is mapped; no metric without orders
calculate_metrics(store, mappings) ==
    LET orders == dataset(store, "orders")
        status_col == mappings.orders["order_status"]
        amount_col == mappings.orders["total_amount"]
        total == Length(orders)
        rto == Cardinality({k \in 1..total :
                  contains(lower[astype_str(orders.rows[k][status_col])],
                           {"rto", "return"})})
    IN (IF total > 0 /\ Truthy(status_col) /\ status_col \in Cols(orders)
        THEN "rto_rate" :> Ratio(rto * 100, total) ELSE <<>>)
       @@ (IF total > 0 /\ Truthy(amount_col) /\ amount_col \in Cols(orders)
           THEN "daily_revenue" :> Ratio(SumRows(orders.rows, amount_col), 1)
           ELSE <<>>)

\* The test of a rule on the value num / den of its metric
triggered(rule, value) ==
    \/ rule.condition = "greater_than" /\ value.num > rule.threshold * value.den
    \/ rule.condition = "less_than" /\ value.num < rule.threshold * value.den
    \/ rule.condition = "equals" /\ value.num = rule.threshold * value.den

\* The alert of a rule that is triggered
alert_of(rule, value) ==
    [id |-> rule.id, severity |-> rule.severity, metric |-> rule.metric,
     current_value |-> value, threshold |-> rule.threshold]

\* evaluate_alerts: the alerts of the enabled rules whose metric exists and
\* meets the condition, in the order of the rules
evaluate_alerts(rules, metrics) ==
    LET fires(rule) == /\ rule.enabled
                       /\ rule.metric \in DOMAIN metrics
                       /\ triggered(rule, metrics[rule.metric])
        fired == SelectSeq(rules, fires)
    IN [k \in 1..Len(fired) |-> alert_of(fired[k], metrics[fired[k].metric])]

\* get_active_alerts without the test on the dismissed ids
all_active_alerts(state) == state.active_alerts

\* get_active_alerts: the active alerts whose id is not dismissed
get_active_alerts(state) ==
    SelectSeq(state.active_alerts, LAMBDA a : a.id \notin state.alerts_dismissed)

\* The orders that the alerts are evaluated on
AlertStores ==
    {Frame(<<"status", "amount">>, rs) :
        rs \in SeqsUpTo({[status |-> s, amount |-> Num(1)] : s \in {"Delivered", "RTO"}},
                        MaxAlertRows)}

AlertMappings ==
    [orders |-> [f \in DOMAIN FieldColumn |->
                    IF f \in {"order_status", "total_amount"} THEN FieldColumn[f]
                    ELSE None]]

AlertsInit ==
    /\ data_store = [orders |-> EmptyFrame]
    /\ column_mappings = AlertMappings
    /\ user_mappings = NoMappings
    /\ limit = 10
    /\ session_state = AlertDefaults
    /\ result = NoResult

\* The orders change: an import or a sync, as the alerts see it
OrdersChange(df) ==
    /\ data_store' = [orders |-> df]
    /\ result' = NoResult
    /\ UNCHANGED <<column_mappings, user_mappings, limit, session_state>>

EvaluateAlerts ==
    LET active_alerts == evaluate_alerts(session_state.alert_rules,
                                         calculate_metrics(data_store, column_mappings))
    IN /\ session_state' = [session_state EXCEPT !.active_alerts = active_alerts]
       /\ result' = NoResult
       /\ UNCHANGED <<data_store, column_mappings, user_mappings, limit>>

\* The 'Dismiss' button of an alert of the panel
DismissAlert(alert_id) ==
    /\ \E k \in 1..Len(get_active_alerts(session_state)) :
          get_active_alerts(session_state)[k].id = alert_id
    /\ session_state' = [session_state EXCEPT
                            !.alerts_dismissed = @ \cup {alert_id}]
    /\ result' = NoResult
    /\ UNCHANGED <<data_store, column_mappings, user_mappings, limit>>

GetActiveAlerts ==
    /\ result' = [op |-> "get_active_alerts", alerts |-> get_active_alerts(session_state)]
    /\ UNCHANGED session_state
    /\ UNCHANGED <<data_store, column_mappings, user_mappings, limit>>

\* render_alert_settings: the threshold and the switch of rule i are set
EditRule(i, new_threshold, enabled) ==
    /\ i \in 1..Len(session_state.alert_rules)
    /\ session_state' = [session_state EXCEPT
                            !.alert_rules[i].threshold = new_threshold,
                            !.alert_rules[i].enabled = enabled]
    /\ result' = NoResult
    /\ UNCHANGED <<data_store, column_mappings, user_mappings, limit>>

\* f"custom_{len(rules)}_{timestamp}" for the rule that is added to n rules
custom_id(n) == CASE n = 1 -> "custom_1" [] n = 2 -> "custom_2" [] OTHER -> "custom_n"

\* 'Add Rule': a rule with a new id is appended
AddRule(new_metric, new_condition, new_thresh) ==
    /\ Len(session_state.alert_rules) < MaxRules
    /\ session_state' = [session_state EXCEPT !.alert_rules =
          Append(@, [id |-> custom_id(Len(session_state.alert_rules)),
                     metric |-> new_metric, condition |-> new_condition,
                     threshold |-> new_thresh, severity |-> "warning",
                     enabled |-> TRUE])]
    /\ result' = NoResult
    /\ UNCHANGED <<data_store, column_mappings, user_mappings, limit>>

AlertThresholds == {15, 100}

AlertsNext ==
    \/ \E df \in AlertStores : OrdersChange(df)
    \/ EvaluateAlerts
    \/ \E alert_id \in {"high_rto", "custom_1", "custom_2"} :
          DismissAlert(alert_id)
    \/ GetActiveAlerts
    \/ \E i \in 1..MaxRules, new_threshold \in AlertThresholds, enabled \in BOOLEAN :
          EditRule(i, new_threshold, enabled)
    \/ AddRule("rto_rate", "equals", 0)

SpecAlerts == AlertsInit /\ [][AlertsNext]_vars

\* C30: a dismissed id stays dismissed through every evaluation, dismissal,
\* change of the rules and change of the data, and get_active_alerts returns
\* no alert with a dismissed id.
C30_DismissedStaysHidden ==
    [][/\ session_state.alerts_dismissed \subseteq session_state'.alerts_dismissed
       /\ result'.op = "get_active_alerts"
            => \A k \in 1..Len(result'.alerts) :
                 result'.alerts[k].id \notin session_state'.alerts_dismissed]_vars

\* A dismissed alert is active again and is not returned
C30_Witness ==
    /\ result.op = "get_active_alerts"
    /\ \E k \in 1..Len(session_state.active_alerts) :
          session_state.active_alerts[k].id \in session_state.alerts_dismissed
    /\ Len(result.alerts) > 0

=============================================================================
